---- MODULE Spec2Model ----
(***************************************************************************)
(* Master-index synchronisation of toop-journal (Electron main process and *)
(* renderer).  The main process keeps cloudsync/masterIndex.json and talks *)
(* to S3; the renderer owns the IndexedDB entry store and is reached with  *)
(* webContents.executeJavaScript.  Every await on an S3 send or on         *)
(* executeJavaScript is a point where another handler may run, so each     *)
(* action below is the code between two such awaits.                       *)
(***************************************************************************)
EXTENDS Integers, Sequences, FiniteSets, TLC

\* ----- bounds -----------------------------------------------------------
\* entry ids ("jun.12.2025" in the program)
Ids == {"a", "b"}
\* largest lastModified found in the stores before the first operation
MaxLM == 2
\* largest value Date.now() returns
MaxClock == 3
\* number of cloudSyncPipeline invocations
MaxPipelines == 1
\* number of cloudSync IPC calls of the renderer that get handled
MaxCalls == 1
\* number of store operations that fail for environmental reasons
MaxFaults == 1

\* one record for each handler invocation of the main process
NProcs == MaxPipelines + MaxCalls

Procs == 1..NProcs

VARIABLES
  fsMasterIndex,   \* cloudsync/masterIndex.json on the local filesystem
  s3MasterIndex,   \* masterIndex.json object of the bucket
  idb,             \* IndexedDB object store 'entries' of the renderer
  s3Entries,       \* entries/{id}.json objects of the bucket
  now,             \* last value returned by Date.now()
  state,           \* state.AWSClient / state.AWSConfig of the main process
  procs,           \* handler invocations in flight in the main process
  ipc,             \* window.cloudSync.* invocations sent and not yet handled
  issued,          \* number of window.cloudSync.* invocations sent so far
  faults,          \* number of store operations that have failed so far
  configFile,      \* config.json of the user data directory
  S3ClientInitializing, \* the flag of aws_client.ts
  parsed,          \* what JSON.parse returned for an index file
  verified         \* what the loader of that index file returned or threw

vars == <<fsMasterIndex, s3MasterIndex, idb, s3Entries, now, state, procs, ipc, issued, faults, configFile, S3ClientInitializing, parsed, verified>>

\* the configuration of the client and the decoding of an index file
setup == <<configFile, S3ClientInitializing>>
decode == <<parsed, verified>>

\* null, and the absence of a file
null == "null"

\* ----- data model (renderer/lib/types: MasterIndex, Entry) ---------------
\* an index maps a subset of Ids to {lastModified, deleted}
EmptyIndex == [k \in {} |-> [lastModified |-> 0, deleted |-> FALSE]]

\* localMasterIndex[id] when the key is missing (undefined in the program)
NoRec == [lastModified |-> -1, deleted |-> FALSE]

\* idb.get / GetObject when there is nothing under the key
NoEntry == [id |-> "none", date |-> <<>>, content |-> "none", timestamp |-> "none", lastModified |-> 0]

\* A date string is held as dateStr.split(' at ') gives it: the date part and
\* the time part. The date of the stored entries:
JournalDate == <<"Jun 14, 2025", "12:35">>

\* formatCurrentDate(): `${month} ${day}, ${year} at ${time}` with the time
\* from toLocaleString('en-US', {hour: '2-digit', minute: '2-digit', hour12:
\* false}). The hour after midnight is formatted as 00 or as 24, as the hour
\* cycle of the runtime's locale data has it; one time stands for the hours
\* that both cycles format alike.
formatCurrentDate == {<<"Jun 14, 2025", "12:35">>, <<"Jun 14, 2025", "24:35">>}

\* parseJournalDate(dateStr): NaN without a date part or a time part or with
\* an unknown month, else new Date(iso).getTime(), which is NaN for a time
\* that is no ISO time (an hour 24 with minutes)
parseJournalDate(dateStr) ==
  IF Len(dateStr) < 2 THEN "NaN"
  ELSE IF dateStr[1] # "Jun 14, 2025" THEN "NaN"
  ELSE IF dateStr[2] = "12:35" THEN "number" ELSE "NaN"

Rec(index, id) == IF id \in DOMAIN index THEN index[id] ELSE NoRec

\* masterIndex[id] = rec
SetRec(index, id, rec) == [k \in (DOMAIN index) \cup {id} |-> IF k = id THEN rec ELSE index[k]]

\* JSON.stringify(entry) as the Body of entries/{id}.json: the own fields of
\* the entry; strings are written as they are, a number that is NaN is
\* written as null, a field that is undefined ("none", <<>>, 0 here) is left
\* out and reads back as undefined.
JSONstringify(entry) == [id |-> entry.id, date |-> entry.date, content |-> entry.content, timestamp |-> IF entry.timestamp = "NaN" THEN "null" ELSE entry.timestamp, lastModified |-> entry.lastModified]

\* JSON.parse(bodyString) as Entry: null is read as null
JSONparse(body) == [id |-> body.id, date |-> body.date, content |-> body.content, timestamp |-> body.timestamp, lastModified |-> body.lastModified]

\* all orders in which a set can be enumerated
Perms(S) == {s \in [1..Cardinality(S) -> S] : \A i, j \in 1..Cardinality(S) : s[i] = s[j] => i = j}

\* a variant that enumerates Object.keys(localMasterIndex) only
LocalIdOrders(local, remote) == {l \o <<>> : l \in Perms(DOMAIN local)}

\* new Set([...Object.keys(localMasterIndex), ...Object.keys(s3MasterIndex)]):
\* the local keys in the key order of the local object, then the keys only
\* the remote has; the key order of a parsed file is whatever the file has.
IdOrders(local, remote) == {l \o r : l \in Perms(DOMAIN local), r \in Perms((DOMAIN remote) \ (DOMAIN local))}

\* ----- handler invocations ----------------------------------------------
\* op/pc/status/err: which handler, where it waits, how it ended;
\* entry/id: its argument; local/remote/synced/order/fetched: the locals of
\* syncMasterIndex; xfers: the entry transfers it has performed;
\* pre: the stores as they were when the invocation started;
\* run/first: which call of the merge this is and what the first returned.
NoSnapshot == [fs |-> EmptyIndex, s3 |-> EmptyIndex, idb |-> [k \in Ids |-> NoEntry], s3Entries |-> [k \in Ids |-> NoEntry], issued |-> 0, running |-> 0, waiting |-> 0, state |-> [AWSClient |-> null, AWSConfig |-> null], configFile |-> null]

IdleProc == [op |-> "none", pc |-> "idle", status |-> "idle", err |-> "", entry |-> NoEntry, id |-> "none", local |-> EmptyIndex, remote |-> EmptyIndex, synced |-> EmptyIndex, order |-> <<>>, fetched |-> NoEntry, xfers |-> <<>>, pre |-> NoSnapshot, run |-> 0, first |-> EmptyIndex, caller |-> "none", config |-> null, client |-> null]

Snapshot == [fs |-> fsMasterIndex.index, s3 |-> s3MasterIndex.index, idb |-> idb, s3Entries |-> s3Entries, issued |-> issued, running |-> IF \E q \in Procs : procs[q].status = "running" THEN 1 ELSE 0, waiting |-> Len(ipc), state |-> state, configFile |-> configFile]

\* a throw that reaches the caller of the handler
Throw(pr, err) == [pr EXCEPT !.pc = "done", !.status = "failed", !.err = err]

\* the transfers a merge has performed, as <<operation, id>>
Xfer(pr, kind) == [pr EXCEPT !.xfers = Append(@, <<kind, Head(pr.order)>>)]

\* ----- renderer: renderer/db/idb.ts, exposed on window by main.tsx -------
\* Each returns what the promise did (threw), the object store afterwards and
\* the window.cloudSync invocations it sent without awaiting them.
NoCalls == <<>>

PutCall(entry) == [fn |-> "putEntryCloudSync", entry |-> entry, id |-> entry.id]

DeleteCall(id) == [fn |-> "deleteEntryCloudSync", entry |-> NoEntry, id |-> id]

\* an argument of an executeJavaScript call: a string literal or an object
StrArg(id) == [type |-> "string", entry |-> NoEntry, id |-> id]

ObjArg(entry) == [type |-> "object", entry |-> entry, id |-> entry.id]

\* idbGetEntryById(id): idb.get('entries', id)
window_idbGetEntryById(id) == idb[id]

\* idbCreateEntry(entry): the one parameter is the entry.  A string has no
\* date, so parseJournalDate(entry.date) calls split on undefined and the
\* promise rejects before idb.put.
window_idbCreateEntry(arg, t) ==
  IF arg.type # "object"
  THEN [threw |-> TRUE, idb |-> idb, sent |-> NoCalls]
  ELSE LET entry == [arg.entry EXCEPT !.timestamp = parseJournalDate(arg.entry.date), !.lastModified = t]
       IN [threw |-> FALSE, idb |-> [idb EXCEPT ![entry.id] = entry], sent |-> <<PutCall(entry)>>]

\* a variant that spreads the stored entry over the updates, {...updates, ...existing}
window_idbUpdateEntryStale(id, updates, t) ==
  IF idb[id] = NoEntry
  THEN [threw |-> TRUE, idb |-> idb, sent |-> NoCalls]
  ELSE LET entry == [idb[id] EXCEPT !.lastModified = IF updates.lastModified # 0 THEN updates.lastModified ELSE t]
       IN [threw |-> FALSE, idb |-> [idb EXCEPT ![id] = entry], sent |-> IF updates.lastModified = 0 THEN <<PutCall(entry)>> ELSE NoCalls]

\* idbUpdateEntry(id, updates): updates is a Partial<Entry>; a field that is
\* "none" (0 for lastModified) is a field updates does not have.
window_idbUpdateEntry(id, updates, t) ==
  IF idb[id] = NoEntry
  THEN [threw |-> TRUE, idb |-> idb, sent |-> NoCalls]
  ELSE LET lastModified == IF updates.lastModified # 0 THEN updates.lastModified ELSE t
           date == IF updates.date # <<>> THEN updates.date ELSE idb[id].date
           entry == [id |-> IF updates.id # "none" THEN updates.id ELSE idb[id].id, date |-> date, content |-> IF updates.content # "none" THEN updates.content ELSE idb[id].content, timestamp |-> parseJournalDate(date), lastModified |-> lastModified]
       IN [threw |-> FALSE, idb |-> [idb EXCEPT ![entry.id] = entry], sent |-> IF updates.lastModified = 0 THEN <<PutCall(entry)>> ELSE NoCalls]

\* a variant that sends the call without deleting the entry from the store
window_idbDeleteEntryKept(id) == [threw |-> FALSE, idb |-> idb, sent |-> <<DeleteCall(id)>>]

\* idbDeleteEntry(id)
window_idbDeleteEntry(id) == [threw |-> FALSE, idb |-> [idb EXCEPT ![id] = NoEntry], sent |-> <<DeleteCall(id)>>]

\* a variant that compares with >= where the loop compares with >: it pushes on ties
BranchPushOnTie(localIndex, s3Index) ==
  IF localIndex = NoRec THEN "getS3New"
  ELSE IF s3Index = NoRec THEN "getLocalNew"
  ELSE IF localIndex.lastModified >= s3Index.lastModified
       THEN (IF localIndex.deleted THEN "deleteS3" ELSE "getLocalUpd")
  ELSE IF s3Index.deleted THEN "deleteLocal" ELSE "getS3Upd"

\* a variant that compares with <= where the loop compares with <: it pulls on ties
BranchPullOnTie(localIndex, s3Index) ==
  IF localIndex = NoRec THEN "getS3New"
  ELSE IF s3Index = NoRec THEN "getLocalNew"
  ELSE IF localIndex.lastModified > s3Index.lastModified
       THEN (IF localIndex.deleted THEN "deleteS3" ELSE "getLocalUpd")
  ELSE IF s3Index.deleted THEN "deleteLocal" ELSE "getS3Upd"

\* a variant without the localIndex.deleted test: a newer local tombstone is
\* pushed like an entry
BranchNoTombstone(localIndex, s3Index) ==
  IF localIndex = NoRec THEN "getS3New"
  ELSE IF s3Index = NoRec THEN "getLocalNew"
  ELSE IF localIndex.lastModified > s3Index.lastModified THEN "getLocalUpd"
  ELSE IF localIndex.lastModified < s3Index.lastModified
       THEN (IF s3Index.deleted THEN "deleteLocal" ELSE "getS3Upd")
  ELSE "continue"

\* ----- syncMasterIndex: the loop over ids --------------------------------
\* From the head of the loop to the next await: the id at Head(order) is the
\* one being reconciled and pc names the await the loop stopped at; "merged"
\* is the return of syncedIndex.
\* the if-chain of one iteration: the await it leads to, or "continue" when
\* no branch is taken
Branch(localIndex, s3Index) ==
  IF localIndex = NoRec THEN "getS3New"
  ELSE IF s3Index = NoRec THEN "getLocalNew"
  ELSE IF localIndex.lastModified > s3Index.lastModified
       THEN (IF localIndex.deleted THEN "deleteS3" ELSE "getLocalUpd")
  ELSE IF localIndex.lastModified < s3Index.lastModified
       THEN (IF s3Index.deleted THEN "deleteLocal" ELSE "getS3Upd")
  ELSE "continue"

\* syncedIndex[id] = localIndex ?? s3Index
FirstCandidate(localIndex, s3Index) == IF localIndex # NoRec THEN localIndex ELSE s3Index

RECURSIVE LoopHead(_)
LoopHead(pr) ==
  IF pr.order = <<>>
  THEN [pr EXCEPT !.pc = "merged"]
  ELSE LET id == Head(pr.order)
           localIndex == Rec(pr.local, id)
           s3Index == Rec(pr.remote, id)
           pr1 == [pr EXCEPT !.synced = SetRec(@, id, FirstCandidate(localIndex, s3Index))]
       IN IF Branch(localIndex, s3Index) = "continue"
          THEN LoopHead([pr1 EXCEPT !.order = Tail(@)])
          ELSE [pr1 EXCEPT !.pc = Branch(localIndex, s3Index)]

\* a variant that does not await the merge: the caller goes on to its next
\* await while transfers are still to be made
ResumeEarly(pr) ==
  IF pr.op = "merge" THEN (IF pr.pc # "merged" THEN pr ELSE [pr EXCEPT !.pc = "done", !.status = "ok"])
  ELSE IF pr.op = "pipeline" THEN [pr EXCEPT !.pc = "putS3Index1"]
  ELSE [pr EXCEPT !.pc = "pushS3Index"]

\* the caller of syncMasterIndex, from the return of the merge to its next await
Resume(pr) ==
  IF pr.pc # "merged" THEN pr
  ELSE IF pr.op = "merge" THEN [pr EXCEPT !.pc = "done", !.status = "ok"]
  ELSE IF pr.op = "pipeline" THEN [pr EXCEPT !.pc = "putS3Index1"]
  ELSE [pr EXCEPT !.pc = "pushS3Index"]

\* a variant whose continue also passes over the id that follows
ContinueSkipping(pr, rec) == Resume(LoopHead([pr EXCEPT !.synced = SetRec(@, Head(pr.order), rec), !.order = IF Len(@) > 1 THEN Tail(Tail(@)) ELSE Tail(@), !.fetched = NoEntry]))

\* syncedIndex[id] = rec; continue
Continue(pr, rec) == Resume(LoopHead([pr EXCEPT !.synced = SetRec(@, Head(pr.order), rec), !.order = Tail(@), !.fetched = NoEntry]))

\* syncMasterIndex(localMasterIndex, s3MasterIndex) up to its first await
syncMasterIndex(pr, localIndex, s3Index, order) ==
  IF state.AWSClient = null \/ state.AWSConfig = null
  THEN Throw(pr, "no s3 client")
  ELSE Resume(LoopHead([pr EXCEPT !.local = localIndex, !.remote = s3Index, !.synced = EmptyIndex, !.order = order, !.xfers = <<>>]))

\* cloudSyncPipeline writes the merged index to the local file in the same
\* step in which syncMasterIndex returns (fs.writeFileSync, no await between)
Commit(p, pr) ==
  /\ procs' = [procs EXCEPT ![p] = pr]
  /\ fsMasterIndex' = IF pr.op = "pipeline" /\ pr.pc = "putS3Index1" /\ procs[p].pc # "putS3Index1"
                       THEN [exists |-> TRUE, index |-> pr.synced]
                       ELSE fsMasterIndex

\* the renderer sends calls: window.cloudSync.* is an ipcRenderer.invoke that
\* nothing awaits. The first MaxCalls calls are handled; a later one is
\* counted and stays unhandled for as long as the run lasts.
Send(calls) ==
  /\ issued' = issued + Len(calls)
  /\ ipc' = IF issued + Len(calls) <= MaxCalls THEN ipc \o calls ELSE ipc

CurId(p) == Head(procs[p].order)

\* GetObjectCommand entries/{id}.json (only remote has id / remote is newer)
getS3Entry(p) ==
  /\ procs[p].pc \in {"getS3New", "getS3Upd"}
  /\ LET pr == Xfer(procs[p], "s3get")
         body == s3Entries[CurId(p)]
     IN IF body = NoEntry
        THEN Commit(p, Throw(pr, "NoSuchKey"))
        ELSE Commit(p, [pr EXCEPT !.fetched = JSONparse(body), !.pc = IF procs[p].pc = "getS3New" THEN "createLocal" ELSE "updateLocal"])
  /\ UNCHANGED <<s3MasterIndex, idb, s3Entries, now, state, ipc, issued, faults, setup, decode>>

\* idbCreateEntry(id, entry): executeJavaScript(`window.idbCreateEntry('${id}', ${JSON.stringify(entry)})`)
idbCreateEntry(p) ==
  /\ procs[p].pc = "createLocal"
  /\ \E t \in now..MaxClock :
       LET res == window_idbCreateEntry(StrArg(CurId(p)), t)
           pr == Xfer(procs[p], "idbcreate")
       IN /\ idb' = res.idb
          /\ Send(res.sent)
          /\ now' = IF res.threw THEN now ELSE t
          /\ IF res.threw
             THEN Commit(p, Throw(pr, "TypeError"))
             ELSE Commit(p, Continue(pr, Rec(pr.remote, CurId(p))))
  /\ UNCHANGED <<s3MasterIndex, s3Entries, state, faults, setup, decode>>

\* a variant without the "if (!entry) throw": it goes on to the put with no entry
idbGetEntryByIdUnchecked(p) ==
  /\ procs[p].pc \in {"getLocalNew", "getLocalUpd"}
  /\ Commit(p, [Xfer(procs[p], "idbget") EXCEPT !.fetched = window_idbGetEntryById(CurId(p)), !.pc = IF procs[p].pc = "getLocalNew" THEN "putS3New" ELSE "putS3Upd"])
  /\ UNCHANGED <<s3MasterIndex, idb, s3Entries, now, state, ipc, issued, faults, setup, decode>>

\* idbGetEntryById(id) (only local has id / local is newer)
idbGetEntryById(p) ==
  /\ procs[p].pc \in {"getLocalNew", "getLocalUpd"}
  /\ LET pr == Xfer(procs[p], "idbget")
         entry == window_idbGetEntryById(CurId(p))
     IN IF entry = NoEntry
        THEN Commit(p, Throw(pr, "error retrieving local entry"))
        ELSE Commit(p, [pr EXCEPT !.fetched = entry, !.pc = IF procs[p].pc = "getLocalNew" THEN "putS3New" ELSE "putS3Upd"])
  /\ UNCHANGED <<s3MasterIndex, idb, s3Entries, now, state, ipc, issued, faults, setup, decode>>

\* a variant whose PutObjectCommand goes to another key: entries/{id}.json stays as it was
putS3EntryElsewhere(p) ==
  /\ procs[p].pc \in {"putS3New", "putS3Upd"}
  /\ Commit(p, Continue(Xfer(procs[p], "s3put"), Rec(procs[p].local, CurId(p))))
  /\ UNCHANGED <<s3MasterIndex, idb, s3Entries, now, state, ipc, issued, faults, setup, decode>>

\* PutObjectCommand entries/{id}.json with Body JSON.stringify(entry)
putS3Entry(p) ==
  /\ procs[p].pc \in {"putS3New", "putS3Upd"}
  /\ s3Entries' = [s3Entries EXCEPT ![CurId(p)] = JSONstringify(procs[p].fetched)]
  /\ Commit(p, Continue(Xfer(procs[p], "s3put"), Rec(procs[p].local, CurId(p))))
  /\ UNCHANGED <<s3MasterIndex, idb, now, state, ipc, issued, faults, setup, decode>>

\* a variant that also deletes the entry of the renderer's store
deleteS3EntryBothSides(p) ==
  /\ procs[p].pc = "deleteS3"
  /\ s3Entries' = [s3Entries EXCEPT ![CurId(p)] = NoEntry]
  /\ idb' = [idb EXCEPT ![CurId(p)] = NoEntry]
  /\ Commit(p, Continue(Xfer(procs[p], "s3delete"), Rec(procs[p].local, CurId(p))))
  /\ UNCHANGED <<s3MasterIndex, now, state, ipc, issued, faults, setup, decode>>

\* DeleteObjectCommand entries/{id}.json (local is newer and deleted)
deleteS3Entry(p) ==
  /\ procs[p].pc = "deleteS3"
  /\ s3Entries' = [s3Entries EXCEPT ![CurId(p)] = NoEntry]
  /\ Commit(p, Continue(Xfer(procs[p], "s3delete"), Rec(procs[p].local, CurId(p))))
  /\ UNCHANGED <<s3MasterIndex, idb, now, state, ipc, issued, faults, setup, decode>>

\* idbDeleteEntry(id) (remote is newer and deleted)
idbDeleteEntry(p) ==
  /\ procs[p].pc = "deleteLocal"
  /\ LET res == window_idbDeleteEntry(CurId(p))
     IN /\ idb' = res.idb
        /\ Send(res.sent)
        /\ Commit(p, Continue(Xfer(procs[p], "idbdelete"), Rec(procs[p].remote, CurId(p))))
  /\ UNCHANGED <<s3MasterIndex, s3Entries, now, state, faults, setup, decode>>

\* idbUpdateEntry(id, entry) (remote is newer)
idbUpdateEntry(p) ==
  /\ procs[p].pc = "updateLocal"
  /\ \E t \in now..MaxClock :
       LET res == window_idbUpdateEntry(CurId(p), procs[p].fetched, t)
           pr == Xfer(procs[p], "idbupdate")
       IN /\ idb' = res.idb
          /\ Send(res.sent)
          /\ now' = IF res.sent = NoCalls THEN now ELSE t
          /\ t # now => res.sent # NoCalls
          /\ IF res.threw
             THEN Commit(p, Throw(pr, "NOT_FOUND"))
             ELSE Commit(p, Continue(pr, Rec(pr.remote, CurId(p))))
  /\ UNCHANGED <<s3MasterIndex, s3Entries, state, faults, setup, decode>>

\* the awaits of a handler: S3 sends and executeJavaScript calls
AwaitPcs == {"getS3New", "getS3Upd", "createLocal", "updateLocal", "getLocalNew", "getLocalUpd", "putS3New", "putS3Upd", "deleteS3", "deleteLocal", "heartbeat", "loadS3", "putS3Index1", "putS3Index2", "pushS3Index", "putEntryS3", "deleteEntryS3"}

\* a variant in which the rejected operation is issued again
ioFailureRetried(p) ==
  /\ procs[p].pc \in AwaitPcs
  /\ faults < MaxFaults
  /\ faults' = faults + 1
  /\ UNCHANGED <<fsMasterIndex, s3MasterIndex, idb, s3Entries, now, state, procs, ipc, issued, setup, decode>>

\* an S3 send rejects (network, credentials) or executeJavaScript rejects
\* (no renderer window): every catch block of the handlers rethrows
ioFailure(p) ==
  /\ procs[p].pc \in AwaitPcs
  /\ faults < MaxFaults
  /\ faults' = faults + 1
  /\ procs' = [procs EXCEPT ![p] = Throw(@, "io")]
  /\ UNCHANGED <<fsMasterIndex, s3MasterIndex, idb, s3Entries, now, state, ipc, issued, setup, decode>>

\* a new invocation takes the first record that is not in use
Free(p) == procs[p].op = "none" /\ \A q \in Procs : q < p => procs[q].op # "none"

\* ----- loading the indexes -----------------------------------------------
\* a variant that takes a missing file for an empty index
loadLocalMasterIndexOrEmpty == IF fsMasterIndex.exists THEN [threw |-> FALSE, index |-> fsMasterIndex.index] ELSE [threw |-> FALSE, index |-> EmptyIndex]

\* loadLocalMasterIndex(): the parsed file, or a throw when it does not exist
loadLocalMasterIndex == IF fsMasterIndex.exists THEN [threw |-> FALSE, index |-> fsMasterIndex.index] ELSE [threw |-> TRUE, index |-> EmptyIndex]

\* loadS3MasterIndex() up to its GetObjectCommand
loadS3MasterIndexCall(pr) == IF state.AWSConfig = null \/ state.AWSClient = null THEN Throw(pr, "no s3 client or config found") ELSE [pr EXCEPT !.pc = "loadS3"]

\* loadS3MasterIndex() from the answer to GetObjectCommand masterIndex.json;
\* the caller then runs syncMasterIndex(masterIndex, <the loaded index>)
loadS3MasterIndex(p) ==
  /\ procs[p].pc = "loadS3"
  /\ IF ~s3MasterIndex.exists
     THEN Commit(p, Throw(procs[p], "NoSuchKey"))
     ELSE \E order \in IdOrders(procs[p].local, s3MasterIndex.index) :
            Commit(p, syncMasterIndex(procs[p], procs[p].local, s3MasterIndex.index, order))
  /\ UNCHANGED <<s3MasterIndex, idb, s3Entries, now, state, ipc, issued, faults, setup, decode>>

\* ----- cloudSyncPipeline -------------------------------------------------
\* the checks and loadLocalMasterIndex(), up to the PutObjectCommand that
\* copies the local index to the bucket
\* a variant without the checks of state.AWSConfig and state.AWSClient
cloudSyncPipelineCallUnchecked(pr, st) ==
  LET loaded == loadLocalMasterIndex
  IN IF loaded.threw THEN Throw(pr, "local master index file does not exist")
     ELSE [pr EXCEPT !.local = loaded.index, !.pc = "heartbeat"]

cloudSyncPipelineCall(pr, st) ==
  LET loaded == loadLocalMasterIndex
  IN IF st.AWSConfig = null THEN Throw(pr, "no aws config found")
     ELSE IF st.AWSClient = null THEN Throw(pr, "no s3 client found")
     ELSE IF loaded.threw THEN Throw(pr, "local master index file does not exist")
     ELSE [pr EXCEPT !.local = loaded.index, !.pc = "heartbeat"]

\* ipcMain.handle('cloud-sync:cloudSyncPipeline')
cloudSyncPipeline(p) ==
  /\ Free(p)
  /\ Cardinality({q \in Procs : procs[q].op = "pipeline"}) < MaxPipelines
  /\ procs' = [procs EXCEPT ![p] = cloudSyncPipelineCall([IdleProc EXCEPT !.op = "pipeline", !.status = "running", !.pre = Snapshot], state)]
  /\ UNCHANGED <<fsMasterIndex, s3MasterIndex, idb, s3Entries, now, state, ipc, issued, faults, setup, decode>>

\* a variant that goes on to load the remote index without the put
putLocalIndexSkipped(p) ==
  /\ procs[p].pc = "heartbeat"
  /\ procs' = [procs EXCEPT ![p] = loadS3MasterIndexCall(@)]
  /\ UNCHANGED <<fsMasterIndex, s3MasterIndex, idb, s3Entries, now, state, ipc, issued, faults, setup, decode>>

\* PutObjectCommand masterIndex.json with Body JSON.stringify(localMasterIndex)
putLocalIndexToS3(p) ==
  /\ procs[p].pc = "heartbeat"
  /\ s3MasterIndex' = [exists |-> TRUE, index |-> procs[p].local]
  /\ procs' = [procs EXCEPT ![p] = loadS3MasterIndexCall(@)]
  /\ UNCHANGED <<fsMasterIndex, idb, s3Entries, now, state, ipc, issued, faults, setup, decode>>

\* PutObjectCommand masterIndex.json with the merged index, inside the try
\* of the merge; then the second fs.writeFileSync
putMergedIndexToS3(p) ==
  /\ procs[p].pc = "putS3Index1"
  /\ s3MasterIndex' = [exists |-> TRUE, index |-> procs[p].synced]
  /\ fsMasterIndex' = [exists |-> TRUE, index |-> procs[p].synced]
  /\ procs' = [procs EXCEPT ![p].pc = "putS3Index2"]
  /\ UNCHANGED <<idb, s3Entries, now, state, ipc, issued, faults, setup, decode>>

\* the last PutObjectCommand masterIndex.json; return true
putS3MasterIndex(p) ==
  /\ procs[p].pc = "putS3Index2"
  /\ s3MasterIndex' = [exists |-> TRUE, index |-> procs[p].synced]
  /\ procs' = [procs EXCEPT ![p].pc = "done", ![p].status = "ok"]
  /\ UNCHANGED <<fsMasterIndex, idb, s3Entries, now, state, ipc, issued, faults, setup, decode>>

\* ----- putEntryCloudSync / deleteEntryCloudSync --------------------------
\* a variant without the check of entry.lastModified
putEntryCloudSyncUnvalidated(p) ==
  /\ Free(p)
  /\ ipc # <<>>
  /\ Head(ipc).fn = "putEntryCloudSync"
  /\ ipc' = Tail(ipc)
  /\ LET entry == Head(ipc).entry
         pr == [IdleProc EXCEPT !.op = "put", !.status = "running", !.pre = Snapshot, !.entry = entry, !.id = entry.id]
     IN procs' = [procs EXCEPT ![p] =
          IF state.AWSClient = null THEN Throw(pr, "no s3 client found")
          ELSE IF state.AWSConfig = null THEN Throw(pr, "no aws config found")
          ELSE [pr EXCEPT !.pc = "putEntryS3"]]
  /\ UNCHANGED <<fsMasterIndex, s3MasterIndex, idb, s3Entries, now, state, issued, faults, setup, decode>>

\* ipcMain.handle('cloud-sync:putEntryCloudSync'): the checks, up to the
\* PutObjectCommand of the entry
putEntryCloudSync(p) ==
  /\ Free(p)
  /\ ipc # <<>>
  /\ Head(ipc).fn = "putEntryCloudSync"
  /\ ipc' = Tail(ipc)
  /\ LET entry == Head(ipc).entry
         pr == [IdleProc EXCEPT !.op = "put", !.status = "running", !.pre = Snapshot, !.entry = entry, !.id = entry.id]
     IN procs' = [procs EXCEPT ![p] =
          IF state.AWSClient = null THEN Throw(pr, "no s3 client found")
          ELSE IF state.AWSConfig = null THEN Throw(pr, "no aws config found")
          ELSE IF entry.lastModified = 0 THEN Throw(pr, "entry lastModified is required")
          ELSE [pr EXCEPT !.pc = "putEntryS3"]]
  /\ UNCHANGED <<fsMasterIndex, s3MasterIndex, idb, s3Entries, now, state, issued, faults, setup, decode>>

\* a variant that leaves masterIndex[entry.id] as the local file has it
putEntryToS3Unindexed(p) ==
  /\ procs[p].pc = "putEntryS3"
  /\ s3Entries' = [s3Entries EXCEPT ![procs[p].id] = JSONstringify(procs[p].entry)]
  /\ LET loaded == loadLocalMasterIndex
     IN procs' = [procs EXCEPT ![p] =
          IF loaded.threw THEN Throw(@, "local master index file does not exist")
          ELSE loadS3MasterIndexCall([@ EXCEPT !.local = loaded.index])]
  /\ UNCHANGED <<fsMasterIndex, s3MasterIndex, idb, now, state, ipc, issued, faults, setup, decode>>

\* PutObjectCommand entries/{entry.id}.json; then the local index is loaded
\* and masterIndex[entry.id] is set
putEntryToS3(p) ==
  /\ procs[p].pc = "putEntryS3"
  /\ s3Entries' = [s3Entries EXCEPT ![procs[p].id] = JSONstringify(procs[p].entry)]
  /\ LET loaded == loadLocalMasterIndex
         masterIndex == SetRec(loaded.index, procs[p].id, [lastModified |-> procs[p].entry.lastModified, deleted |-> FALSE])
     IN procs' = [procs EXCEPT ![p] =
          IF loaded.threw THEN Throw(@, "local master index file does not exist")
          ELSE loadS3MasterIndexCall([@ EXCEPT !.local = masterIndex])]
  /\ UNCHANGED <<fsMasterIndex, s3MasterIndex, idb, now, state, ipc, issued, faults, setup, decode>>

\* ipcMain.handle('cloud-sync:deleteEntryCloudSync'): the checks, up to the
\* DeleteObjectCommand of the entry
deleteEntryCloudSync(p) ==
  /\ Free(p)
  /\ ipc # <<>>
  /\ Head(ipc).fn = "deleteEntryCloudSync"
  /\ ipc' = Tail(ipc)
  /\ LET pr == [IdleProc EXCEPT !.op = "delete", !.status = "running", !.pre = Snapshot, !.id = Head(ipc).id]
     IN procs' = [procs EXCEPT ![p] =
          IF state.AWSClient = null THEN Throw(pr, "no s3 client found")
          ELSE IF state.AWSConfig = null THEN Throw(pr, "no aws config found")
          ELSE [pr EXCEPT !.pc = "deleteEntryS3"]]
  /\ UNCHANGED <<fsMasterIndex, s3MasterIndex, idb, s3Entries, now, state, issued, faults, setup, decode>>

\* DeleteObjectCommand entries/{id}.json; then the local index is loaded and
\* masterIndex[id] = {lastModified: Date.now(), deleted: true}
deleteEntryFromS3(p) ==
  /\ procs[p].pc = "deleteEntryS3"
  /\ s3Entries' = [s3Entries EXCEPT ![procs[p].id] = NoEntry]
  /\ \E t \in now..MaxClock :
       LET loaded == loadLocalMasterIndex
           masterIndex == SetRec(loaded.index, procs[p].id, [lastModified |-> t, deleted |-> TRUE])
       IN /\ now' = IF loaded.threw THEN now ELSE t
          /\ loaded.threw => t = now
          /\ procs' = [procs EXCEPT ![p] =
               IF loaded.threw THEN Throw(@, "local master index file does not exist")
               ELSE loadS3MasterIndexCall([@ EXCEPT !.local = masterIndex])]
  /\ UNCHANGED <<fsMasterIndex, s3MasterIndex, idb, state, ipc, issued, faults, setup, decode>>

\* a variant that persists the remote index it loaded instead of the merged one
pushLoadedIndex(p) ==
  /\ procs[p].pc = "pushS3Index"
  /\ s3MasterIndex' = [exists |-> TRUE, index |-> procs[p].remote]
  /\ fsMasterIndex' = [exists |-> TRUE, index |-> procs[p].remote]
  /\ procs' = [procs EXCEPT ![p].pc = "done", ![p].status = "ok"]
  /\ UNCHANGED <<idb, s3Entries, now, state, ipc, issued, faults, setup, decode>>

\* a variant without the fs.writeFileSync of the local file
pushMergedIndexRemoteOnly(p) ==
  /\ procs[p].pc = "pushS3Index"
  /\ s3MasterIndex' = [exists |-> TRUE, index |-> procs[p].synced]
  /\ procs' = [procs EXCEPT ![p].pc = "done", ![p].status = "ok"]
  /\ UNCHANGED <<fsMasterIndex, idb, s3Entries, now, state, ipc, issued, faults, setup, decode>>

\* PutObjectCommand masterIndex.json with the merged index, then
\* fs.writeFileSync of the local file (putEntryCloudSync, deleteEntryCloudSync)
pushMergedIndex(p) ==
  /\ procs[p].pc = "pushS3Index"
  /\ s3MasterIndex' = [exists |-> TRUE, index |-> procs[p].synced]
  /\ fsMasterIndex' = [exists |-> TRUE, index |-> procs[p].synced]
  /\ procs' = [procs EXCEPT ![p].pc = "done", ![p].status = "ok"]
  /\ UNCHANGED <<idb, s3Entries, now, state, ipc, issued, faults, setup, decode>>

\* ----- the editor: components/TextEditor.tsx -------------------------------
\* The user saves and deletes while a call of theirs can still be handled.
\* handleSave of a new entry: idb.idbCreateEntry(entry)
saveNewEntry ==
  \E id \in Ids, t \in now..MaxClock, entryDate \in formatCurrentDate :
    LET res == window_idbCreateEntry(ObjArg([id |-> id, date |-> entryDate, content |-> "E", timestamp |-> "number", lastModified |-> 0]), t)
    IN /\ idb[id] = NoEntry
       /\ issued < MaxCalls
       /\ idb' = res.idb
       /\ Send(res.sent)
       /\ now' = t
       /\ UNCHANGED <<fsMasterIndex, s3MasterIndex, s3Entries, state, procs, faults, setup, decode>>

\* handleSave of an existing entry: idb.idbUpdateEntry(entry.id, {content})
saveEntry ==
  \E id \in Ids, t \in now..MaxClock :
    LET res == window_idbUpdateEntry(id, [id |-> "none", date |-> <<>>, content |-> "E", timestamp |-> "none", lastModified |-> 0], t)
    IN /\ idb[id] # NoEntry
       /\ issued < MaxCalls
       /\ idb' = res.idb
       /\ Send(res.sent)
       /\ now' = t
       /\ UNCHANGED <<fsMasterIndex, s3MasterIndex, s3Entries, state, procs, faults, setup, decode>>

\* handleDelete: idb.idbDeleteEntry(entry.id)
deleteEntry ==
  \E id \in Ids :
    LET res == window_idbDeleteEntry(id)
    IN /\ idb[id] # NoEntry
       /\ issued < MaxCalls
       /\ idb' = res.idb
       /\ Send(res.sent)
       /\ UNCHANGED <<fsMasterIndex, s3MasterIndex, s3Entries, now, state, procs, faults, setup, decode>>

EditorSteps == saveNewEntry \/ saveEntry \/ deleteEntry

\* ----- the merge called on its own ---------------------------------------
\* syncMasterIndex(local, remote) on the two indexes as persisted
mergeCall(p) ==
  /\ p = 1
  /\ Free(p)
  /\ fsMasterIndex.exists /\ s3MasterIndex.exists
  /\ \E order \in IdOrders(fsMasterIndex.index, s3MasterIndex.index) :
       Commit(p, syncMasterIndex([IdleProc EXCEPT !.op = "merge", !.status = "running", !.pre = Snapshot, !.run = 1], fsMasterIndex.index, s3MasterIndex.index, order))
  /\ UNCHANGED <<s3MasterIndex, idb, s3Entries, now, state, ipc, issued, faults, setup, decode>>

\* syncMasterIndex(merged, remote): the first output fed back as local
mergeAgain(p) ==
  /\ procs[p].op = "merge" /\ procs[p].status = "ok" /\ procs[p].run = 1
  /\ \E order \in IdOrders(procs[p].synced, procs[p].remote) :
       Commit(p, syncMasterIndex([procs[p] EXCEPT !.status = "running", !.run = 2, !.first = procs[p].synced], procs[p].synced, procs[p].remote, order))
  /\ UNCHANGED <<s3MasterIndex, idb, s3Entries, now, state, ipc, issued, faults, setup, decode>>

\* ----- initial states ------------------------------------------------------
IndexRecords == [lastModified : 1..MaxLM, deleted : BOOLEAN]

\* the records of an id that was last written at the earliest time
EarlyRecords == {r \in IndexRecords : r.lastModified = 1}

\* the indexes that hold any records for ids of S and early records for ids of T
Indexes(S, T) == UNION {{i \in [K -> IndexRecords] : \A k \in K \cap T : i[k] \in EarlyRecords} : K \in SUBSET (S \cup T)}

\* what a store may hold for id next to an index that has rec for it
StoredEntries(id, rec, content) == {NoEntry, [id |-> id, date |-> JournalDate, content |-> content, timestamp |-> "number", lastModified |-> IF rec = NoRec THEN 1 ELSE rec.lastModified]}

\* an entry object written before entries carried lastModified
LegacyEntries(id, content) == {[id |-> id, date |-> JournalDate, content |-> content, timestamp |-> "number", lastModified |-> 0]}

\* what a store holds for id when it agrees with its index
SettledEntry(id, rec, content) == IF rec = NoRec \/ rec.deleted THEN NoEntry ELSE [id |-> id, date |-> JournalDate, content |-> content, timestamp |-> "number", lastModified |-> rec.lastModified]

\* ----- parsed JSON (the argument of verifyMasterIndex) -------------------------
\* a JSON value with its typeof; the number and the boolean keep their value
JSONUndefined == [type |-> "undefined", v |-> 0]
JSONString == [type |-> "string", v |-> 0]
JSONNumber(n) == [type |-> "number", v |-> n]
JSONBoolean(b) == [type |-> "boolean", v |-> IF b THEN 1 ELSE 0]

\* a value of the parsed index: an object with its two fields, null, a
\* number, or no value under that key
JSONObject(lastModified, deleted) == [type |-> "object", lastModified |-> lastModified, deleted |-> deleted]
JSONNull == [type |-> "null", lastModified |-> JSONUndefined, deleted |-> JSONUndefined]
JSONScalar == [type |-> "number", lastModified |-> JSONUndefined, deleted |-> JSONUndefined]
NoKey == [type |-> "absent", lastModified |-> JSONUndefined, deleted |-> JSONUndefined]

\* typeof: null is an object
typeof(x) == IF x.type = "null" THEN "object" ELSE x.type

\* nothing has been parsed and no loader has been called
NoJSON == [type |-> "undefined", entries |-> [k \in Ids |-> NoKey]]
NotLoaded == [called |-> "none", threw |-> FALSE, index |-> EmptyIndex]

\* the client and the config are set from config.json; no index file is
\* being decoded
Configured ==
  /\ state = [AWSClient |-> "c1", AWSConfig |-> "c1"]
  /\ configFile = "c1"
  /\ S3ClientInitializing = FALSE
  /\ parsed = NoJSON
  /\ verified = NotLoaded

\* Both indexes exist. For the ids of S they hold any records and each store
\* holds an entry or none (a record without its entry and an entry without
\* its record are what offline edits and other devices leave); for the ids of
\* T they hold early records and each store agrees with its index.
InitStores(S, T) ==
  /\ fsMasterIndex \in [exists : {TRUE}, index : Indexes(S, T)]
  /\ s3MasterIndex \in [exists : {TRUE}, index : Indexes(S, T)]
  /\ idb \in [Ids -> [id : Ids, date : {JournalDate}, content : {"L"}, timestamp : {"number"}, lastModified : 1..MaxLM] \cup {NoEntry}]
  /\ \A id \in Ids : idb[id] \in (IF id \in S THEN StoredEntries(id, Rec(fsMasterIndex.index, id), "L") ELSE IF id \in T THEN {SettledEntry(id, Rec(fsMasterIndex.index, id), "L")} ELSE {NoEntry})
  /\ s3Entries \in [Ids -> [id : Ids, date : {JournalDate}, content : {"R"}, timestamp : {"number"}, lastModified : 0..MaxLM] \cup {NoEntry}]
  /\ \A id \in Ids : s3Entries[id] \in (IF id \in S THEN StoredEntries(id, Rec(s3MasterIndex.index, id), "R") \cup LegacyEntries(id, "R") ELSE IF id \in T THEN {SettledEntry(id, Rec(s3MasterIndex.index, id), "R")} ELSE {NoEntry})
  /\ now = 1
  /\ Configured
  /\ procs = [p \in Procs |-> IdleProc]
  /\ ipc = <<>>
  /\ issued = 0
  /\ faults = 0

\* one id has a history on both sides, the other is new
Init == InitStores({"a"}, {})

\* one id has any history on both sides, the other an early one
InitMerge == InitStores({"a"}, {"b"})

\* ----- specifications ------------------------------------------------------
\* the awaits of syncMasterIndex when they resolve
TransferSteps(p) ==
  \/ getS3Entry(p)
  \/ idbCreateEntry(p)
  \/ idbGetEntryById(p)
  \/ putS3Entry(p)
  \/ deleteS3Entry(p)
  \/ idbDeleteEntry(p)
  \/ idbUpdateEntry(p)

MergeSteps(p) == TransferSteps(p) \/ ioFailure(p)

HandlerSteps(p) ==
  \/ loadS3MasterIndex(p)
  \/ putEntryCloudSync(p)
  \/ putEntryToS3(p)
  \/ deleteEntryCloudSync(p)
  \/ deleteEntryFromS3(p)
  \/ pushMergedIndex(p)

PipelineSteps(p) ==
  \/ putLocalIndexToS3(p)
  \/ putMergedIndexToS3(p)
  \/ putS3MasterIndex(p)

\* a handler of a call of the renderer has returned or thrown
Finished(p) == procs[p].op \in {"put", "delete"} /\ procs[p].status \in {"ok", "failed"}

\* the record of a handler that has ended is dropped
reap ==
  /\ \E p \in Procs : Finished(p)
  /\ procs' = [p \in Procs |-> IF Finished(p) THEN IdleProc ELSE procs[p]]
  /\ UNCHANGED <<fsMasterIndex, s3MasterIndex, idb, s3Entries, now, state, ipc, issued, faults, setup, decode>>

\* syncMasterIndex called on the persisted indexes, and called again on its
\* own output; the calls the renderer sends meanwhile are handled, and the
\* record of a handler is dropped as soon as it has ended
NextMerge ==
  \/ reap
  \/ (\A q \in Procs : ~Finished(q)) /\ \E p \in Procs : mergeCall(p) \/ mergeAgain(p) \/ MergeSteps(p) \/ HandlerSteps(p)

SpecMerge == InitMerge /\ [][NextMerge]_vars

\* nothing is in flight: no handler is running and no call waits to be handled
Quiet == ipc = <<>> /\ \A p \in Procs : procs[p].status # "running"

\* The user saves or deletes an entry, or a sync pass is started, when
\* nothing is in flight; the handlers of the main process then run, together
\* with the handlers of the calls the renderer sends while they run.
UserSteps == Quiet /\ (EditorSteps \/ \E p \in Procs : cloudSyncPipeline(p))

Next == UserSteps \/ \E p \in Procs : PipelineSteps(p) \/ MergeSteps(p) \/ HandlerSteps(p)

Spec == Init /\ [][Next]_vars

\* ----- the operations on stores that agree with their indexes ---------------
\* The two indexes hold any records for one id, and each store holds the
\* entry its index says it holds; the other id is new.
InitOps ==
  /\ fsMasterIndex \in [exists : {TRUE}, index : Indexes({"a"}, {})]
  /\ s3MasterIndex \in [exists : {TRUE}, index : Indexes({"a"}, {})]
  /\ idb = [id \in Ids |-> SettledEntry(id, Rec(fsMasterIndex.index, id), "L")]
  /\ s3Entries = [id \in Ids |-> SettledEntry(id, Rec(s3MasterIndex.index, id), "R")]
  /\ now = 1
  /\ Configured
  /\ procs = [p \in Procs |-> IdleProc]
  /\ ipc = <<>>
  /\ issued = 0
  /\ faults = 0

\* window.cloudSync.putEntryCloudSync(entry) with an entry that was stored
\* before entries carried lastModified
putLegacyEntry ==
  \E id \in Ids :
    /\ issued < MaxCalls
    /\ Send(<<PutCall([id |-> id, date |-> JournalDate, content |-> "E", timestamp |-> "number", lastModified |-> 0])>>)
    /\ UNCHANGED <<fsMasterIndex, s3MasterIndex, idb, s3Entries, now, state, procs, faults, setup, decode>>

\* the records of the invocations that have ended are dropped
retire ==
  /\ Quiet
  /\ \E p \in Procs : procs[p] # IdleProc
  /\ procs' = [p \in Procs |-> IdleProc]
  /\ UNCHANGED <<fsMasterIndex, s3MasterIndex, idb, s3Entries, now, state, ipc, issued, faults, setup, decode>>

\* no invocation is on record
Rested == \A p \in Procs : procs[p] = IdleProc

\* one operation at a time: the user saves or deletes, a legacy entry is
\* sent or a sync pass is started when nothing is in flight and the records
\* of the earlier invocations are dropped
NextOps ==
  \/ Rested /\ (putLegacyEntry \/ UserSteps)
  \/ retire
  \/ \E p \in Procs : PipelineSteps(p) \/ MergeSteps(p) \/ HandlerSteps(p)

SpecOps == InitOps /\ [][NextOps]_vars

\* ----- operations that overlap ------------------------------------------------
\* the two sides are in step: the indexes are equal and each store holds the
\* entries its index says it holds
InitSynced == InitOps /\ s3MasterIndex.index = fsMasterIndex.index

\* at most one invocation is on record, it is running, and no call waits
OneRunning ==
  /\ ipc = <<>>
  /\ \A q, r \in Procs : (procs[q] # IdleProc /\ procs[r] # IdleProc) => (q = r /\ procs[q].status = "running")

\* Nothing serializes the handlers: the user saves or deletes and a sync
\* pass is started also while another invocation is running. The overlaps
\* are taken two invocations at a time: the records of the invocations that
\* have ended are dropped before the next ones start. No send rejects here:
\* the runs of interest are those in which every invocation returns.
NextOverlap ==
  \/ OneRunning /\ EditorSteps
  \/ OneRunning /\ \E p \in Procs : cloudSyncPipeline(p)
  \/ retire
  \/ \E p \in Procs : PipelineSteps(p) \/ TransferSteps(p) \/ HandlerSteps(p)

SpecOverlap == InitSynced /\ [][NextOverlap]_vars

\* ----- vocabulary of the properties -----------------------------------------
\* syncMasterIndex has returned syncedIndex to its caller
Returned(pr) == pr.pc \in {"putS3Index1", "putS3Index2", "pushS3Index"} \/ (pr.pc = "done" /\ pr.status = "ok")

\* the ids both indexes had when the merge was called
Both(pr) == (DOMAIN pr.local) \cap (DOMAIN pr.remote)

\* the merge performed the transfer kind for id
Did(pr, kind, id) == \E i \in 1..Len(pr.xfers) : pr.xfers[i] = <<kind, id>>

\* the merge performed some transfer for id
Touched(pr, id) == \E i \in 1..Len(pr.xfers) : pr.xfers[i][2] = id

LocalNewer(pr, k) == k \in Both(pr) /\ pr.local[k].lastModified > pr.remote[k].lastModified

RemoteNewer(pr, k) == k \in Both(pr) /\ pr.local[k].lastModified < pr.remote[k].lastModified

Tie(pr, k) == k \in Both(pr) /\ pr.local[k].lastModified = pr.remote[k].lastModified

\* the record with the greater lastModified, the local one on ties
LWW(localIndex, s3Index) == IF localIndex.lastModified >= s3Index.lastModified THEN localIndex ELSE s3Index

\* no handler other than p ran while p ran: none was running and no call but
\* p's own was waiting when p started, and no call was sent since
NoOtherWriter(p) ==
  /\ procs[p].pre.running = 0
  /\ procs[p].pre.waiting = (IF procs[p].op \in {"put", "delete"} THEN 1 ELSE 0)
  /\ issued = procs[p].pre.issued

\* C1: when cloudSyncPipeline returns true and nothing else wrote meanwhile,
\* for every id k of the local index L or the remote index R as they were when
\* it started, both persisted indexes hold for k the record with the greater
\* lastModified among L[k] and R[k] (L[k] on ties); so every id that was only
\* in R is in both persisted indexes.
C1_PipelineLww ==
  [][\A p \in Procs : (putS3MasterIndex(p) /\ NoOtherWriter(p)) =>
       \A k \in (DOMAIN procs[p].pre.fs) \cup (DOMAIN procs[p].pre.s3) :
         /\ Rec(fsMasterIndex'.index, k) = LWW(Rec(procs[p].pre.fs, k), Rec(procs[p].pre.s3, k))
         /\ Rec(s3MasterIndex'.index, k) = LWW(Rec(procs[p].pre.fs, k), Rec(procs[p].pre.s3, k))]_vars

\* C2: for every id in both indexes a returned merge holds the local record
\* when its lastModified is greater or equal and the remote record otherwise,
\* and on equal lastModified it has performed no transfer for the id.
C2_LwwMerged ==
  \A p \in Procs : Returned(procs[p]) =>
    \A k \in Both(procs[p]) :
      /\ procs[p].synced[k] = LWW(procs[p].local[k], procs[p].remote[k])
      /\ Tie(procs[p], k) => ~Touched(procs[p], k)

\* a merge returned after a tie on an id whose two records differ in deleted
C2_Witness ==
  \E p \in Procs : Returned(procs[p]) /\ \E k \in Both(procs[p]) :
    /\ Tie(procs[p], k)
    /\ procs[p].local[k].deleted # procs[p].remote[k].deleted
    /\ procs[p].xfers # <<>>

\* C3: a returned merge has exactly the keys of local and of remote.
C3_UnionCompleteness ==
  \A p \in Procs : Returned(procs[p]) =>
    DOMAIN procs[p].synced = (DOMAIN procs[p].local) \cup (DOMAIN procs[p].remote)

\* a merge returned on two indexes with different key sets
C3_Witness ==
  \E p \in Procs : Returned(procs[p]) /\ DOMAIN procs[p].local # DOMAIN procs[p].remote /\ procs[p].remote # EmptyIndex

\* the ids on which local was authoritative when the merge was first called:
\* only local had them, or local was strictly newer
LocalWon(pr, k) == k \in DOMAIN pr.pre.fs /\ (k \notin DOMAIN pr.remote \/ pr.pre.fs[k].lastModified > pr.remote[k].lastModified)

\* the second of the two calls of the merge has returned
SecondRun(pr) == pr.op = "merge" /\ pr.run = 2 /\ Returned(pr)

\* C4 as claimed: merge(merged, remote) returns the same index and performs
\* no entry transfer at all.
C4_IdempotenceClaimed ==
  \A p \in Procs : SecondRun(procs[p]) => procs[p].synced = procs[p].first /\ procs[p].xfers = <<>>

\* C4 as amended: merge(merged, remote) returns the same index; it performs
\* no transfer for an id on which remote was authoritative or tied and never
\* writes the local entry store, and it repeats the push (local get and
\* remote put, or remote delete) for every id on which local was authoritative.
C4_IdempotentIndex ==
  \A p \in Procs : SecondRun(procs[p]) =>
    /\ procs[p].synced = procs[p].first
    /\ \A k \in Ids : Touched(procs[p], k) <=> LocalWon(procs[p], k)
    /\ \A i \in 1..Len(procs[p].xfers) : procs[p].xfers[i][1] \in {"idbget", "s3put", "s3delete"}

\* a second run that repeated a push next to an id on which remote had won
C4_Witness ==
  \E p \in Procs : SecondRun(procs[p]) /\ procs[p].xfers # <<>> /\ \E k \in Ids : RemoteNewer([procs[p] EXCEPT !.local = procs[p].pre.fs], k)

\* C5: for every id in both indexes whose local record is strictly newer and
\* not deleted, a returned merge has put the entry of the local store under
\* entries/{id}.json and holds the local record.
C5_LwwPush ==
  \A p \in Procs : Returned(procs[p]) =>
    \A k \in Ids : LocalNewer(procs[p], k) /\ ~procs[p].local[k].deleted =>
      /\ procs[p].synced[k] = procs[p].local[k]
      /\ Did(procs[p], "s3put", k)
      /\ s3Entries[k] = JSONstringify(idb[k])

\* a merge returned after overwriting a remote entry that had other content
C5_Witness ==
  \E p \in Procs : Returned(procs[p]) /\ \E k \in Ids :
    /\ LocalNewer(procs[p], k) /\ ~procs[p].local[k].deleted
    /\ procs[p].pre.s3Entries[k] # NoEntry
    /\ procs[p].pre.s3Entries[k].content # s3Entries[k].content

\* C6: for every id in both indexes whose local record is strictly newer and
\* deleted, a returned merge has deleted entries/{id}.json without reading
\* the local store for the id, and holds the local record.
C6_TombstoneToRemote ==
  \A p \in Procs : Returned(procs[p]) =>
    \A k \in Ids : LocalNewer(procs[p], k) /\ procs[p].local[k].deleted =>
      /\ procs[p].synced[k] = procs[p].local[k]
      /\ Did(procs[p], "s3delete", k)
      /\ ~Did(procs[p], "idbget", k)
      /\ s3Entries[k] = NoEntry

\* a merge returned after deleting a remote entry that existed
C6_Witness ==
  \E p \in Procs : Returned(procs[p]) /\ \E k \in Ids :
    /\ LocalNewer(procs[p], k) /\ procs[p].local[k].deleted
    /\ procs[p].pre.s3Entries[k] # NoEntry
    /\ s3Entries[k] = NoEntry

\* C7: for every id in both indexes whose remote record is strictly newer and
\* deleted, a returned merge has deleted the local entry and holds the remote
\* record, and the local store has no entry for the id.
C7_TombstoneToLocal ==
  \A p \in Procs : Returned(procs[p]) =>
    \A k \in Ids : RemoteNewer(procs[p], k) /\ procs[p].remote[k].deleted =>
      /\ procs[p].synced[k] = procs[p].remote[k]
      /\ Did(procs[p], "idbdelete", k)
      /\ idb[k] = NoEntry

\* a merge returned after deleting a local entry that existed
C7_Witness ==
  \E p \in Procs : Returned(procs[p]) /\ \E k \in Ids :
    /\ RemoteNewer(procs[p], k) /\ procs[p].remote[k].deleted
    /\ procs[p].pre.idb[k] # NoEntry
    /\ idb[k] = NoEntry

\* C8: for every id in both indexes whose remote record is strictly newer and
\* not deleted, a returned merge has replaced the local entry by the entry of
\* entries/{id}.json and holds the remote record.
C8_LwwPull ==
  \A p \in Procs : Returned(procs[p]) =>
    \A k \in Ids : RemoteNewer(procs[p], k) /\ ~procs[p].remote[k].deleted =>
      /\ procs[p].synced[k] = procs[p].remote[k]
      /\ Did(procs[p], "idbupdate", k)
      /\ s3Entries[k] # NoEntry
      /\ idb[k].id = k
      /\ idb[k].content = s3Entries[k].content

\* a merge returned after replacing a local entry that had other content
C8_Witness ==
  \E p \in Procs : Returned(procs[p]) /\ \E k \in Ids :
    /\ RemoteNewer(procs[p], k) /\ ~procs[p].remote[k].deleted
    /\ procs[p].pre.idb[k].content = "L"
    /\ idb[k].content = "R"

\* C9 as claimed: for every id only the remote index has, once the merge has
\* called the create for the id the local store holds an entry with the
\* content of entries/{id}.json, and the merge holds the remote record.
C9_BootstrapPull ==
  \A p \in Procs : \A k \in (DOMAIN procs[p].remote) \ (DOMAIN procs[p].local) :
    Did(procs[p], "idbcreate", k) =>
      /\ idb[k] # NoEntry
      /\ idb[k].content = s3Entries[k].content
      /\ Rec(procs[p].synced, k) = procs[p].remote[k]

\* C10: for every id only the local index has, a returned merge has put the
\* entry of the local store under entries/{id}.json and holds the local
\* record; the put is never issued without an entry, and a merge that found
\* no local entry for the id has failed without a put for it.
C10_BootstrapPush ==
  \A p \in Procs : \A k \in (DOMAIN procs[p].local) \ (DOMAIN procs[p].remote) :
    /\ Returned(procs[p]) =>
         /\ procs[p].synced[k] = procs[p].local[k]
         /\ Did(procs[p], "s3put", k)
         /\ s3Entries[k] = JSONstringify(idb[k])
    /\ procs[p].pc = "putS3New" /\ Head(procs[p].order) = k => procs[p].fetched # NoEntry
    /\ procs[p].err = "error retrieving local entry" /\ Head(procs[p].order) = k =>
         /\ procs[p].status = "failed"
         /\ ~Did(procs[p], "s3put", k)

\* a merge returned after creating the remote entry, and another failed on
\* an id that has no local entry
C10_Witness ==
  \E p \in Procs : \E k \in (DOMAIN procs[p].local) \ (DOMAIN procs[p].remote) :
    \/ Returned(procs[p]) /\ procs[p].pre.s3Entries[k] = NoEntry /\ s3Entries[k].content = "L"
    \/ procs[p].err = "error retrieving local entry" /\ Head(procs[p].order) = k /\ idb[k] = NoEntry

\* ----- the handlers as operations --------------------------------------------
\* the step in which the invocation p ends with an error
Fails(p) == procs'[p].status = "failed" /\ procs[p].status # "failed"

\* the step in which the invocation p returns without an error
Succeeds(p) == procs'[p].status = "ok" /\ procs[p].status # "ok"

\* C11: when cloudSyncPipeline fails at any step and nothing else ran
\* meanwhile, the local index file and the remote index object are as they
\* were when it was called.
C11_FailureAtomicity ==
  [][\A p \in Procs : (Fails(p) /\ procs'[p].op = "pipeline" /\ NoOtherWriter(p)') =>
       /\ fsMasterIndex'.index = procs'[p].pre.fs
       /\ s3MasterIndex'.index = procs'[p].pre.s3]_vars

\* the await at which each branch of the merge completes its transfer
FinalTransfer(branch) ==
  CASE branch = "getS3New" -> "idbcreate"
    [] branch = "getLocalNew" -> "s3put"
    [] branch = "getLocalUpd" -> "s3put"
    [] branch = "deleteS3" -> "s3delete"
    [] branch = "deleteLocal" -> "idbdelete"
    [] branch = "getS3Upd" -> "idbupdate"
    [] OTHER -> "none"

\* the merge of pr has gone through every id and has made, without an error,
\* the transfer it decided for each
TransfersDone(pr) ==
  /\ pr.status # "failed"
  /\ pr.order = <<>>
  /\ \A k \in (DOMAIN pr.local) \cup (DOMAIN pr.remote) :
       Branch(Rec(pr.local, k), Rec(pr.remote, k)) # "continue" =>
         Did(pr, FinalTransfer(Branch(Rec(pr.local, k), Rec(pr.remote, k))), k)

\* the awaits of syncMasterIndex
MergePcs == {"getS3New", "getS3Upd", "createLocal", "updateLocal", "getLocalNew", "getLocalUpd", "putS3New", "putS3Upd", "deleteS3", "deleteLocal"}

\* the step in which p writes its merged index to the local file or to the
\* remote index object
WritesMerged(p) ==
  \/ putMergedIndexToS3(p)
  \/ putS3MasterIndex(p)
  \/ pushMergedIndex(p)
  \/ procs[p].op = "pipeline" /\ procs[p].pc \in MergePcs \cup {"loadS3"} /\ procs'[p].pc = "putS3Index1"

\* C12: cloudSyncPipeline, putEntryCloudSync and deleteEntryCloudSync write
\* their merged index to the local file or to the remote index object only
\* when every transfer decided by the merge has been made without an error; a
\* step in which the merge fails writes neither index, and an index changes
\* only in a step of an invocation that has not failed.
C12_PersistAfterTransfers ==
  [][/\ \A p \in Procs : WritesMerged(p) => TransfersDone(procs'[p])
     /\ \A p \in Procs : (Fails(p) /\ procs[p].pc \in MergePcs) => UNCHANGED <<fsMasterIndex, s3MasterIndex, setup, decode>>
     /\ <<fsMasterIndex, s3MasterIndex>>' # <<fsMasterIndex, s3MasterIndex>> =>
          \E p \in Procs : procs[p].status = "running" /\ ~Fails(p) /\ (WritesMerged(p) \/ putLocalIndexToS3(p))]_vars

\* a handler has persisted a merged index that differs from the local index
\* it found, after the transfers of its merge
C12_Witness ==
  \E p \in Procs :
    /\ procs[p].status = "ok" /\ procs[p].op \in {"put", "delete"}
    /\ procs[p].xfers # <<>>
    /\ fsMasterIndex.index = procs[p].synced /\ fsMasterIndex.index # procs[p].pre.fs

\* the operations of the main process that merge and persist the indexes
Operations == {"pipeline", "put", "delete"}

\* C13: when cloudSyncPipeline, putEntryCloudSync or deleteEntryCloudSync
\* returns without an error and nothing else ran meanwhile, the local index
\* file and the remote index object both hold the merged index it computed.
C13_Convergence ==
  [][\A p \in Procs : (Succeeds(p) /\ procs'[p].op \in Operations /\ NoOtherWriter(p)') =>
       /\ fsMasterIndex'.index = procs'[p].synced
       /\ s3MasterIndex'.index = procs'[p].synced]_vars

\* an operation that found two different indexes has returned, nothing else
\* ran meanwhile, and the two persisted indexes are its merged index
C13_Witness ==
  \E p \in Procs :
    /\ procs[p].status = "ok" /\ procs[p].op \in Operations /\ NoOtherWriter(p)
    /\ procs[p].pre.fs # procs[p].pre.s3
    /\ procs[p].xfers # <<>>
    /\ fsMasterIndex.index = procs[p].synced /\ s3MasterIndex.index = procs[p].synced

\* every invocation on record has returned without an error and no call waits
AllReturned == ipc = <<>> /\ \A p \in Procs : procs[p].status \in {"idle", "ok"}

\* the index record putEntryCloudSync or deleteEntryCloudSync wrote for its
\* id (masterIndex[id] = ...) before it merged
WrittenRec(pr) == Rec(pr.local, pr.id)

\* the handler p has returned without an error and a persisted index has no
\* record for its id, or an older one than p wrote
Lost(p) ==
  /\ procs[p].op \in {"put", "delete"} /\ procs[p].status = "ok"
  /\ \/ Rec(fsMasterIndex.index, procs[p].id).lastModified < WrittenRec(procs[p]).lastModified
     \/ Rec(s3MasterIndex.index, procs[p].id).lastModified < WrittenRec(procs[p]).lastModified

\* some invocation started while another was running
Overlapped == \E q \in Procs : procs[q].pre.running > 0

\* C14: once every invocation has returned without an error, the index
\* record a handler wrote is missing from a persisted index (or older
\* there) only if two invocations overlapped; the witness is the
\* interleaving in which that happens.
C14_LostOnlyUnderOverlap == AllReturned => \A p \in Procs : Lost(p) => Overlapped

\* a sync pass and a putEntryCloudSync overlapped, both returned without an
\* error, and both persisted indexes lack the id the handler wrote
C14_Witness ==
  /\ AllReturned
  /\ \E p, q \in Procs :
       /\ procs[p].op = "put" /\ procs[p].status = "ok"
       /\ procs[q].op = "pipeline" /\ procs[q].status = "ok"
       /\ procs[p].id \notin DOMAIN fsMasterIndex.index
       /\ procs[p].id \notin DOMAIN s3MasterIndex.index

\* C15: when putEntryCloudSync(e) returns without an error and nothing else
\* ran meanwhile, the remote object entries/{e.id}.json holds e, and when
\* e.lastModified is not below the remote index record of e.id (or there is
\* none) both persisted indexes map e.id to {e.lastModified, deleted: false}.
C15_PutEntryPostcondition ==
  [][\A p \in Procs : (Succeeds(p) /\ procs'[p].op = "put" /\ NoOtherWriter(p)') =>
       LET e == procs'[p].entry
           wrote == [lastModified |-> e.lastModified, deleted |-> FALSE]
       IN /\ s3Entries'[e.id] = JSONstringify(e)
          /\ e.lastModified >= Rec(procs'[p].pre.s3, e.id).lastModified =>
               /\ Rec(fsMasterIndex'.index, e.id) = wrote
               /\ Rec(s3MasterIndex'.index, e.id) = wrote]_vars

\* a put handler has returned, alone, and has raised the record of its entry
\* in both indexes
C15_Witness ==
  \E p \in Procs :
    /\ procs[p].op = "put" /\ procs[p].status = "ok" /\ NoOtherWriter(p)
    /\ s3Entries[procs[p].id] = JSONstringify(procs[p].entry)
    /\ Rec(procs[p].pre.s3, procs[p].id).lastModified < procs[p].entry.lastModified
    /\ Rec(procs[p].pre.fs, procs[p].id).lastModified < procs[p].entry.lastModified
    /\ Rec(fsMasterIndex.index, procs[p].id) = [lastModified |-> procs[p].entry.lastModified, deleted |-> FALSE]
    /\ Rec(s3MasterIndex.index, procs[p].id) = [lastModified |-> procs[p].entry.lastModified, deleted |-> FALSE]

\* GetObjectCommand entries/{id}.json and JSON.parse of its body, as the merge
\* fetches an entry
Fetch(id) == JSONparse(s3Entries[id])

\* C16: once putEntryCloudSync(e) has written the entry, a fetch of
\* entries/{e.id}.json yields an entry whose content, id, date, timestamp and
\* lastModified are those of e.
C16_RoundTrip ==
  [][\A p \in Procs : putEntryToS3(p) =>
       LET e == procs[p].entry
       IN /\ Fetch(e.id)'.content = e.content
          /\ Fetch(e.id)'.id = e.id
          /\ Fetch(e.id)'.date = e.date
          /\ Fetch(e.id)'.timestamp = e.timestamp
          /\ Fetch(e.id)'.lastModified = e.lastModified]_vars

\* C17: putEntryCloudSync called with an entry whose lastModified is not set
\* fails with an error and writes nothing: the remote entry objects, the
\* remote index, the local index and the local entry store are as they were
\* when it was called.
C17_PutEntryValidation ==
  \A p \in Procs : (procs[p].op = "put" /\ procs[p].entry.lastModified = 0) =>
    /\ procs[p].status = "failed"
    /\ NoOtherWriter(p) =>
         /\ s3Entries = procs[p].pre.s3Entries
         /\ s3MasterIndex.index = procs[p].pre.s3
         /\ fsMasterIndex.index = procs[p].pre.fs
         /\ idb = procs[p].pre.idb

\* the handler was called with an entry without lastModified and has thrown
C17_Witness ==
  \E p \in Procs :
    /\ procs[p].op = "put" /\ procs[p].entry.lastModified = 0 /\ procs[p].entry.content = "E"
    /\ procs[p].status = "failed" /\ procs[p].err = "entry lastModified is required"
    /\ NoOtherWriter(p)
    /\ s3Entries = procs[p].pre.s3Entries

\* the step in which the invocation p ends, other than by a rejected send
Ends(p) == procs[p].status = "running" /\ procs'[p].status \in {"ok", "failed"} /\ procs'[p].err # "io"

\* C18: for an id whose remote index record is absent or older than the
\* current time, deleteEntryCloudSync(id) run with nothing else meanwhile
\* returns with the remote object entries/{id}.json absent and with the
\* tombstone {lastModified: now, deleted: true} for id in both persisted
\* indexes.
C18_DeleteEntryPostcondition ==
  [][\A p \in Procs :
       (/\ Ends(p) /\ procs'[p].op = "delete" /\ NoOtherWriter(p)'
        /\ procs'[p].id \in DOMAIN procs'[p].local
        /\ Rec(procs'[p].pre.s3, procs'[p].id).lastModified < procs'[p].local[procs'[p].id].lastModified) =>
       /\ procs'[p].status = "ok"
       /\ procs'[p].local[procs'[p].id].deleted
       /\ s3Entries'[procs'[p].id] = NoEntry
       /\ Rec(fsMasterIndex'.index, procs'[p].id) = procs'[p].local[procs'[p].id]
       /\ Rec(s3MasterIndex'.index, procs'[p].id) = procs'[p].local[procs'[p].id]]_vars

\* no id with a deleted record in the index has an entry in the store
Tombstones(index, store) == \A k \in DOMAIN index : index[k].deleted => store[k] = NoEntry

\* C19: when a cloudSyncPipeline, putEntryCloudSync or deleteEntryCloudSync
\* that found no entry under a deleted record, on either side, returns
\* without an error and nothing else ran meanwhile, no id with a deleted
\* record in the persisted remote index has a remote object and no id with a
\* deleted record in the persisted local index has a local entry.
C19_TombstoneInvariant ==
  [][\A p \in Procs :
       (/\ Succeeds(p) /\ procs'[p].op \in Operations /\ NoOtherWriter(p)'
        /\ Tombstones(procs'[p].pre.s3, procs'[p].pre.s3Entries)
        /\ Tombstones(procs'[p].pre.fs, procs'[p].pre.idb)) =>
       /\ Tombstones(s3MasterIndex'.index, s3Entries')
       /\ Tombstones(fsMasterIndex'.index, idb')]_vars

\* C20: when a cloudSyncPipeline, putEntryCloudSync or deleteEntryCloudSync
\* returns without an error and nothing else ran meanwhile, every id that was
\* in the persisted local index is still in it and every id that was in the
\* persisted remote index is still in it.
C20_RecordsNeverRemoved ==
  [][\A p \in Procs :
       (Succeeds(p) /\ procs'[p].op \in Operations /\ NoOtherWriter(p)') =>
       /\ DOMAIN procs'[p].pre.fs \subseteq DOMAIN fsMasterIndex'.index
       /\ DOMAIN procs'[p].pre.s3 \subseteq DOMAIN s3MasterIndex'.index]_vars

\* the step in which a handler sets masterIndex[id] for its mutation
Stamps(p) == (putEntryToS3(p) \/ deleteEntryFromS3(p)) /\ procs'[p].status # "failed"

\* C21: every mutation of an entry (a create or an edit through
\* putEntryCloudSync, a delete through deleteEntryCloudSync) sets the local
\* index record of the id to a lastModified strictly greater than the one the
\* record had before.
C21_MonotonicTimestamps ==
  [][\A p \in Procs : Stamps(p) =>
       WrittenRec(procs'[p]).lastModified > Rec(fsMasterIndex.index, procs[p].id).lastModified]_vars

\* ----- decoding an index file ---------------------------------------------------
\* the values JSON.parse can return under a key of an index file
JSONFields == {JSONUndefined, JSONString} \cup {JSONNumber(n) : n \in 1..MaxLM} \cup {JSONBoolean(b) : b \in BOOLEAN}
JSONValues == {JSONObject(lastModified, deleted) : lastModified \in JSONFields, deleted \in JSONFields} \cup {JSONNull, JSONScalar, NoKey}

\* what JSON.parse can return for an index file: an object, null or a number
JSONIndexes == [type : {"object"}, entries : [Ids -> JSONValues]] \cup [type : {"null", "number"}, entries : {[k \in Ids |-> NoKey]}]

\* the test of verifyMasterIndex on one value
IsIndexRecord(value) == typeof(value) = "object" /\ value.type # "null" /\ typeof(value.lastModified) = "number" /\ typeof(value.deleted) = "boolean"

\* Object.entries(masterIndex)
ObjectKeys(masterIndex) == {key \in Ids : masterIndex.entries[key] # NoKey}

\* the index made of the values that passed
Validated(masterIndex, keys) == [key \in keys |-> [lastModified |-> masterIndex.entries[key].lastModified.v, deleted |-> masterIndex.entries[key].deleted.v = 1]]

\* a variant that skips a value that is not a record
verifyMasterIndexLenient(called, masterIndex) ==
  IF typeof(masterIndex) # "object" \/ masterIndex.type = "null"
  THEN [called |-> called, threw |-> TRUE, index |-> EmptyIndex]
  ELSE [called |-> called, threw |-> FALSE, index |-> Validated(masterIndex, {key \in ObjectKeys(masterIndex) : IsIndexRecord(masterIndex.entries[key])})]

\* verifyMasterIndex(masterIndex) as the last statement of the loader called
verifyMasterIndex(called, masterIndex) ==
  IF typeof(masterIndex) # "object" \/ masterIndex.type = "null"
  THEN [called |-> called, threw |-> TRUE, index |-> EmptyIndex]
  ELSE IF \E key \in ObjectKeys(masterIndex) : ~IsIndexRecord(masterIndex.entries[key])
  THEN [called |-> called, threw |-> TRUE, index |-> EmptyIndex]
  ELSE [called |-> called, threw |-> FALSE, index |-> Validated(masterIndex, ObjectKeys(masterIndex))]

\* loadLocalMasterIndex() from the result of JSON.parse(raw)
decodeLocalMasterIndex ==
  /\ verified = NotLoaded
  /\ verified' = verifyMasterIndex("loadLocalMasterIndex", parsed)
  /\ UNCHANGED <<fsMasterIndex, s3MasterIndex, idb, s3Entries, now, state, procs, ipc, issued, faults, setup, parsed>>

\* loadS3MasterIndex() from the result of JSON.parse(bodyString)
decodeS3MasterIndex ==
  /\ verified = NotLoaded
  /\ verified' = verifyMasterIndex("loadS3MasterIndex", parsed)
  /\ UNCHANGED <<fsMasterIndex, s3MasterIndex, idb, s3Entries, now, state, procs, ipc, issued, faults, setup, parsed>>

\* an index file of any content has been read and parsed
InitDecode ==
  /\ fsMasterIndex = [exists |-> TRUE, index |-> EmptyIndex]
  /\ s3MasterIndex = [exists |-> TRUE, index |-> EmptyIndex]
  /\ idb = [id \in Ids |-> NoEntry]
  /\ s3Entries = [id \in Ids |-> NoEntry]
  /\ now = 1
  /\ state = [AWSClient |-> "c1", AWSConfig |-> "c1"]
  /\ configFile = "c1"
  /\ S3ClientInitializing = FALSE
  /\ procs = [p \in Procs |-> IdleProc]
  /\ ipc = <<>>
  /\ issued = 0
  /\ faults = 0
  /\ parsed \in JSONIndexes
  /\ verified = NotLoaded

NextDecode == decodeLocalMasterIndex \/ decodeS3MasterIndex

SpecDecode == InitDecode /\ [][NextDecode]_vars

\* the parsed file has a value without a numeric lastModified or without a
\* boolean deleted
Malformed(masterIndex) ==
  \E key \in Ids :
    /\ masterIndex.entries[key].type # "absent"
    /\ (masterIndex.entries[key].lastModified.type # "number" \/ masterIndex.entries[key].deleted.type # "boolean")

ConfigString(chars) == [type |-> "string", v |-> chars]
ConfigUndefined == [type |-> "undefined", v |-> <<>>]

\* the config objects in use: two sets of credentials for the bucket, one with
\* a blank secret and one without a region
S3Configs == {"c1", "c2", "blank", "partial"}

S3Config(c) ==
  [aws_access |-> ConfigString(IF c = "c2" THEN <<"K", "2">> ELSE <<"K", "1">>),
   aws_secret |-> ConfigString(IF c = "blank" THEN <<" ", " ">> ELSE <<"s">>),
   aws_region |-> IF c = "partial" THEN ConfigUndefined ELSE ConfigString(<<" ", "r">>),
   aws_bucket |-> ConfigString(<<"b">>)]

\* String.prototype.trim
RECURSIVE trimStart(_)
trimStart(chars) == IF chars # <<>> /\ Head(chars) = " " THEN trimStart(Tail(chars)) ELSE chars

RECURSIVE trimEnd(_)
trimEnd(chars) == IF chars # <<>> /\ chars[Len(chars)] = " " THEN trimEnd(SubSeq(chars, 1, Len(chars) - 1)) ELSE chars

trim(chars) == trimEnd(trimStart(chars))

isValidAWSConfig(c) ==
  /\ c \in S3Configs
  /\ \A f \in {"aws_access", "aws_secret", "aws_region", "aws_bucket"} :
       S3Config(c)[f].type = "string" /\ trim(S3Config(c)[f].v) # <<>>

\* getConfig(): null without a file or with a file that is not a config;
\* JSON.parse throws on a file that is not JSON
getConfig ==
  IF configFile = null THEN [threw |-> FALSE, config |-> null]
  ELSE IF configFile = "garbled" THEN [threw |-> TRUE, config |-> null]
  ELSE IF ~isValidAWSConfig(configFile) THEN [threw |-> FALSE, config |-> null]
  ELSE [threw |-> FALSE, config |-> configFile]

\* a variant that builds and probes a client whatever the flag and the state say
initS3ClientUnguarded(p) ==
  /\ Free(p)
  /\ LET pr == [IdleProc EXCEPT !.op = "init", !.caller = "initS3Client", !.status = "running", !.pre = Snapshot]
         loaded == getConfig
     IN IF loaded.threw
        THEN /\ procs' = [procs EXCEPT ![p] = Throw(pr, "getConfig")]
             /\ S3ClientInitializing' = FALSE
             /\ UNCHANGED state
        ELSE IF loaded.config = null
        THEN /\ procs' = [procs EXCEPT ![p] = Throw(pr, "initS3Client: failed to load aws config")]
             /\ S3ClientInitializing' = FALSE
             /\ state' = [state EXCEPT !.AWSConfig = null]
        ELSE /\ procs' = [procs EXCEPT ![p] = [pr EXCEPT !.pc = "probe", !.config = loaded.config]]
             /\ S3ClientInitializing' = TRUE
             /\ state' = [state EXCEPT !.AWSConfig = loaded.config]
  /\ UNCHANGED <<fsMasterIndex, s3MasterIndex, idb, s3Entries, now, ipc, issued, faults, configFile, decode>>

\* ipcMain.handle('cloud-sync:initS3Client'): initS3Client() up to the
\* ListObjectsV2Command of testAWSClient
initS3Client(p) ==
  /\ Free(p)
  /\ LET pr == [IdleProc EXCEPT !.op = "init", !.caller = "initS3Client", !.status = "running", !.pre = Snapshot]
         loaded == getConfig
     IN IF S3ClientInitializing \/ state.AWSClient # null
        THEN /\ procs' = [procs EXCEPT ![p] = [pr EXCEPT !.pc = "done", !.status = "ok"]]
             /\ UNCHANGED <<state, S3ClientInitializing>>
        ELSE IF loaded.threw
        THEN /\ procs' = [procs EXCEPT ![p] = Throw(pr, "getConfig")]
             /\ S3ClientInitializing' = FALSE
             /\ UNCHANGED state
        ELSE IF loaded.config = null
        THEN /\ procs' = [procs EXCEPT ![p] = Throw(pr, "initS3Client: failed to load aws config")]
             /\ S3ClientInitializing' = FALSE
             /\ state' = [state EXCEPT !.AWSConfig = null]
        ELSE /\ procs' = [procs EXCEPT ![p] = [pr EXCEPT !.pc = "probe", !.config = loaded.config]]
             /\ S3ClientInitializing' = TRUE
             /\ state' = [state EXCEPT !.AWSConfig = loaded.config]
  /\ UNCHANGED <<fsMasterIndex, s3MasterIndex, idb, s3Entries, now, ipc, issued, faults, configFile, decode>>

\* a variant that resolves once the client is set
setAWSClientOnly(p) ==
  /\ procs[p].op = "init" /\ procs[p].pc = "probe"
  /\ \E ok \in BOOLEAN :
       IF ok
       THEN /\ state' = [state EXCEPT !.AWSClient = procs[p].config]
            /\ procs' = [procs EXCEPT ![p] = [@ EXCEPT !.client = procs[p].config, !.pc = "done", !.status = "ok"]]
       ELSE /\ procs' = [procs EXCEPT ![p] = Throw(@, "getAWSClient: testAWSClient failed")]
            /\ UNCHANGED state
  /\ S3ClientInitializing' = FALSE
  /\ UNCHANGED <<fsMasterIndex, s3MasterIndex, idb, s3Entries, now, ipc, issued, faults, configFile, decode>>

\* a variant whose failed probe leaves the initializing flag set
setAWSClientFlagKept(p) ==
  /\ procs[p].op = "init" /\ procs[p].pc = "probe"
  /\ \E ok \in BOOLEAN :
       IF ok
       THEN /\ state' = [state EXCEPT !.AWSClient = procs[p].config]
            /\ procs' = [procs EXCEPT ![p] = cloudSyncPipelineCall([@ EXCEPT !.op = "pipeline", !.client = procs[p].config, !.pre = Snapshot], state')]
       ELSE /\ procs' = [procs EXCEPT ![p] = Throw(@, "getAWSClient: testAWSClient failed")]
            /\ UNCHANGED state
  /\ S3ClientInitializing' = (state'.AWSClient = null)
  /\ UNCHANGED <<fsMasterIndex, s3MasterIndex, idb, s3Entries, now, ipc, issued, faults, configFile, decode>>

\* testAWSClient answers to initS3Client: the client is set and
\* cloudSyncPipeline() is called, or the call throws
setAWSClient(p) ==
  /\ procs[p].op = "init" /\ procs[p].pc = "probe"
  /\ \E ok \in BOOLEAN :
       IF ok
       THEN /\ state' = [state EXCEPT !.AWSClient = procs[p].config]
            /\ procs' = [procs EXCEPT ![p] = cloudSyncPipelineCall([@ EXCEPT !.op = "pipeline", !.client = procs[p].config, !.pre = Snapshot], state')]
       ELSE /\ procs' = [procs EXCEPT ![p] = Throw(@, "getAWSClient: testAWSClient failed")]
            /\ UNCHANGED state
  /\ S3ClientInitializing' = FALSE
  /\ UNCHANGED <<fsMasterIndex, s3MasterIndex, idb, s3Entries, now, ipc, issued, faults, configFile, decode>>

\* a variant that writes the file and the state before the probe has answered
writeConfigUnprobed(p, fn, config) ==
  /\ Free(p)
  /\ config \in S3Configs
  /\ LET pr == [IdleProc EXCEPT !.op = fn, !.caller = fn, !.status = "running", !.pre = Snapshot, !.config = config]
     IN IF ~isValidAWSConfig(config)
        THEN /\ procs' = [procs EXCEPT ![p] = Throw(pr, "invalid aws config")]
             /\ UNCHANGED <<state, configFile>>
        ELSE /\ procs' = [procs EXCEPT ![p] = [pr EXCEPT !.pc = "probe"]]
             /\ state' = [state EXCEPT !.AWSConfig = config]
             /\ configFile' = config
  /\ UNCHANGED <<fsMasterIndex, s3MasterIndex, idb, s3Entries, now, ipc, issued, faults, S3ClientInitializing, decode>>

\* createConfig(config) and updateConfig(config) up to the
\* ListObjectsV2Command of testAWSClient
writeConfig(p, fn, config) ==
  /\ Free(p)
  /\ config \in S3Configs
  /\ LET pr == [IdleProc EXCEPT !.op = fn, !.caller = fn, !.status = "running", !.pre = Snapshot, !.config = config]
     IN procs' = [procs EXCEPT ![p] = IF ~isValidAWSConfig(config) THEN Throw(pr, "invalid aws config") ELSE [pr EXCEPT !.pc = "probe"]]
  /\ UNCHANGED <<fsMasterIndex, s3MasterIndex, idb, s3Entries, now, state, ipc, issued, faults, setup, decode>>

\* ipcMain.handle('cloud-sync:createConfig')
createConfig(p) == \E config \in S3Configs : writeConfig(p, "createConfig", config)

\* ipcMain.handle('cloud-sync:updateConfig')
updateConfig(p) == \E config \in S3Configs : writeConfig(p, "updateConfig", config)

\* testAWSClient answers to createConfig or updateConfig: the client is set,
\* config.json is written and state.AWSConfig is set, or the call throws
saveConfig(p) ==
  /\ procs[p].op \in {"createConfig", "updateConfig"} /\ procs[p].pc = "probe"
  /\ \E ok \in BOOLEAN :
       IF ok
       THEN /\ state' = [AWSClient |-> procs[p].config, AWSConfig |-> procs[p].config]
            /\ configFile' = procs[p].config
            /\ procs' = [procs EXCEPT ![p] = [@ EXCEPT !.client = procs[p].config, !.pc = "done", !.status = "ok"]]
       ELSE /\ procs' = [procs EXCEPT ![p] = Throw(@, "getAWSClient: testAWSClient failed")]
            /\ UNCHANGED <<state, configFile>>
  /\ UNCHANGED <<fsMasterIndex, s3MasterIndex, idb, s3Entries, now, ipc, issued, faults, S3ClientInitializing, decode>>

\* ipcMain.handle('cloud-sync:deleteConfig')
deleteConfig ==
  /\ configFile' = null
  /\ state' = [AWSClient |-> null, AWSConfig |-> null]
  /\ UNCHANGED <<fsMasterIndex, s3MasterIndex, idb, s3Entries, now, procs, ipc, issued, faults, S3ClientInitializing, decode>>

\* a fresh device and a bucket: each index file may be missing, no entry is
\* stored, the client is not set and config.json holds anything
InitSetup ==
  /\ fsMasterIndex \in [exists : BOOLEAN, index : {EmptyIndex}]
  /\ s3MasterIndex \in [exists : BOOLEAN, index : {EmptyIndex}]
  /\ idb = [id \in Ids |-> NoEntry]
  /\ s3Entries = [id \in Ids |-> NoEntry]
  /\ now = 1
  /\ state = [AWSClient |-> null, AWSConfig |-> null]
  /\ configFile \in {null, "c1", "blank", "garbled"}
  /\ S3ClientInitializing = FALSE
  /\ procs = [p \in Procs |-> IdleProc]
  /\ ipc = <<>>
  /\ issued = 0
  /\ faults = 0
  /\ parsed = NoJSON
  /\ verified = NotLoaded

\* no pipeline and no handler of an entry is between two of its awaits
NoSync == \A p \in Procs : procs[p].status = "running" => procs[p].pc = "probe"

ConfigSteps(p) == initS3Client(p) \/ createConfig(p) \/ updateConfig(p)

ProbeSteps(p) == setAWSClient(p) \/ saveConfig(p)

\* The renderer initializes the client and changes the config while at most
\* one other invocation is in flight; the config is deleted while no sync
\* pass is between two of its awaits; the sync pass of initS3Client runs on
\* the indexes of a device and a bucket without entries.
NextSetup ==
  \/ OneRunning /\ \E p \in Procs : ConfigSteps(p)
  \/ NoSync /\ deleteConfig
  \/ retire
  \/ \E p \in Procs : ProbeSteps(p) \/ PipelineSteps(p) \/ loadS3MasterIndex(p)

SpecSetup == InitSetup /\ [][NextSetup]_vars

\* a client is being constructed and probed for initS3Client
Probing(pr) == pr.caller = "initS3Client" /\ pr.status = "running" /\ pr.pc = "probe"

\* initS3Client has just been called
InitCalled(p) == procs[p] = IdleProc /\ procs'[p].caller = "initS3Client"

\* C27: initS3Client returns early, building and probing no client, when an
\* initialization is in flight or a client exists; at most one construction
\* and probe of initS3Client is in progress at any time.
C27_SingleInitialization ==
  [][/\ \A p \in Procs : (InitCalled(p) /\ (S3ClientInitializing \/ state.AWSClient # null)) =>
          (procs'[p].status = "ok" /\ procs'[p].pc = "done" /\ UNCHANGED <<state, S3ClientInitializing, configFile>>)
     /\ Cardinality({p \in Procs : Probing(procs'[p])}) <= 1]_vars

\* a call has returned early while the probe of another call is in flight
C27_Witness ==
  \E p, q \in Procs :
    /\ Probing(procs[p])
    /\ procs[q].caller = "initS3Client" /\ procs[q].op = "init" /\ procs[q].status = "ok"
    /\ S3ClientInitializing

\* the record of an initS3Client call that has set the client
SetTheClient(pr) == pr.caller = "initS3Client" /\ pr.client # null

\* C28: an initS3Client call that sets the client and resolves has run
\* cloudSyncPipeline to its end before it resolves, and an error of that
\* pipeline run makes the call fail.
C28_StartupSync ==
  [][\A p \in Procs :
       /\ (SetTheClient(procs'[p]) /\ procs[p].status = "running" /\ procs'[p].status = "ok") =>
            (procs[p].pc = "putS3Index2" /\ s3MasterIndex' = [exists |-> TRUE, index |-> procs[p].synced])
       /\ (SetTheClient(procs'[p]) /\ procs[p].status = "running" /\ procs'[p].err # "") =>
            procs'[p].status = "failed"]_vars

\* an initS3Client call has set the client, run the pipeline and resolved
C28_Witness ==
  \E p \in Procs :
    /\ SetTheClient(procs[p]) /\ procs[p].status = "ok"
    /\ fsMasterIndex = [exists |-> TRUE, index |-> procs[p].synced]
    /\ ~S3ClientInitializing

\* an initS3Client call has set the client and failed in the pipeline
C28_WitnessFailed ==
  \E p \in Procs : SetTheClient(procs[p]) /\ procs[p].status = "failed" /\ state.AWSClient = procs[p].client

\* the record of a createConfig or updateConfig call
WritesConfig(pr) == pr.caller \in {"createConfig", "updateConfig"}

\* C29: createConfig(c) and updateConfig(c) succeed only when c has four
\* non-blank string fields and the probe with c succeeds, and then config.json,
\* state.AWSConfig and state.AWSClient are those of c; a call that fails on
\* the validation or on the probe changes none of the three.
C29_ConfigWrite ==
  [][\A p \in Procs : (procs'[p] # procs[p] /\ WritesConfig(procs'[p])) =>
       IF procs'[p].status = "ok"
       THEN /\ isValidAWSConfig(procs'[p].config)
            /\ procs[p].pc = "probe"
            /\ configFile' = procs'[p].config
            /\ state' = [AWSClient |-> procs'[p].config, AWSConfig |-> procs'[p].config]
       ELSE UNCHANGED <<configFile, state>>]_vars

\* updateConfig has replaced the config of the file and of the state
C29_Witness ==
  \E p \in Procs :
    /\ procs[p].caller = "updateConfig" /\ procs[p].status = "ok" /\ procs[p].config = "c2"
    /\ procs[p].pre.configFile = "c1" /\ procs[p].pre.state.AWSClient = "c1"
    /\ configFile = "c2" /\ state = [AWSClient |-> "c2", AWSConfig |-> "c2"]

\* createConfig has failed on the probe and the file and the state are as before
C29_WitnessFailed ==
  \E p \in Procs :
    /\ procs[p].caller = "createConfig" /\ procs[p].status = "failed" /\ isValidAWSConfig(procs[p].config)
    /\ configFile = procs[p].pre.configFile /\ state = procs[p].pre.state

\* ----- the operations without an index file or without a client ---------------
\* As InitOps, but each index file may be missing, and the client and the
\* config may be null.
InitBare ==
  /\ \E local \in Indexes({"a"}, {}), remote \in Indexes({"a"}, {}) :
       /\ fsMasterIndex \in {[exists |-> TRUE, index |-> local], [exists |-> FALSE, index |-> EmptyIndex]}
       /\ s3MasterIndex \in {[exists |-> TRUE, index |-> remote], [exists |-> FALSE, index |-> EmptyIndex]}
       /\ idb = [id \in Ids |-> SettledEntry(id, Rec(local, id), "L")]
       /\ s3Entries = [id \in Ids |-> SettledEntry(id, Rec(remote, id), "R")]
  /\ now = 1
  /\ state \in [AWSClient : {null, "c1"}, AWSConfig : {null, "c1"}]
  /\ configFile = state.AWSConfig
  /\ S3ClientInitializing = FALSE
  /\ procs = [p \in Procs |-> IdleProc]
  /\ ipc = <<>>
  /\ issued = 0
  /\ faults = 0
  /\ parsed = NoJSON
  /\ verified = NotLoaded

\* one operation at a time, and the config is deleted between the operations
NextBare ==
  \/ Rested /\ (deleteConfig \/ UserSteps)
  \/ retire
  \/ \E p \in Procs : PipelineSteps(p) \/ TransferSteps(p) \/ HandlerSteps(p)

SpecBare == InitBare /\ [][NextBare]_vars

\* C23: when the remote index object does not exist, loading the remote index
\* puts an empty index object in the bucket and returns the empty index, so
\* the operation that loads it does not fail on the missing object.
C23_RemoteBootstrap ==
  [][\A p \in Procs : (procs[p].pc = "loadS3" /\ procs'[p] # procs[p] /\ ~s3MasterIndex.exists) =>
       (procs'[p].status # "failed" /\ s3MasterIndex' = [exists |-> TRUE, index |-> EmptyIndex])]_vars

\* the step in which an operation calls loadLocalMasterIndex()
LoadsLocal(p) ==
  \/ procs[p] = IdleProc /\ procs'[p].op = "pipeline" /\ state.AWSConfig # null /\ state.AWSClient # null
  \/ procs[p].pc \in {"putEntryS3", "deleteEntryS3"} /\ procs'[p] # procs[p]

\* C24: when the local index file is absent, cloudSyncPipeline,
\* putEntryCloudSync and deleteEntryCloudSync fail where they load the local
\* index, the index is not taken to be empty, and no step of an operation
\* writes the local or the remote index.
C24_NoLocalFallback ==
  [][\A p \in Procs : (~fsMasterIndex.exists /\ procs'[p] # procs[p] /\ procs'[p].op \in Operations) =>
       /\ UNCHANGED <<fsMasterIndex, s3MasterIndex>>
       /\ procs'[p].status # "ok"
       /\ LoadsLocal(p) => (procs'[p].status = "failed" /\ procs'[p].local = EmptyIndex /\ procs'[p].synced = EmptyIndex)]_vars

\* putEntryCloudSync has put the entry object and failed on the missing
\* local index, with the remote index as it was
C24_Witness ==
  \E p \in Procs :
    /\ procs[p].op = "put" /\ procs[p].status = "failed"
    /\ procs[p].err = "local master index file does not exist"
    /\ ~fsMasterIndex.exists
    /\ s3Entries[procs[p].id] # NoEntry
    /\ s3MasterIndex.exists /\ s3MasterIndex.index = procs[p].pre.s3

\* an operation has just been called
Called(p) == procs[p] = IdleProc /\ procs'[p].op \in Operations

\* C25: when state.AWSConfig or state.AWSClient is null, cloudSyncPipeline,
\* putEntryCloudSync and deleteEntryCloudSync fail before any operation on
\* the local index, the local entries or the bucket.
C25_NoSyncWithoutCredentials ==
  [][\A p \in Procs : (Called(p) /\ (state.AWSConfig = null \/ state.AWSClient = null)) =>
       /\ procs'[p].status = "failed" /\ procs'[p].pc = "done"
       /\ procs'[p].err \in {"no aws config found", "no s3 client found"}
       /\ UNCHANGED <<fsMasterIndex, s3MasterIndex, idb, s3Entries>>]_vars

\* after deleteConfig a deleteEntryCloudSync call has failed on the client
C25_Witness ==
  \E p \in Procs :
    /\ procs[p].op = "delete" /\ procs[p].err = "no s3 client found"
    /\ procs[p].pre.state.AWSClient = null /\ configFile = null
    /\ fsMasterIndex.index = procs[p].pre.fs /\ s3MasterIndex.index = procs[p].pre.s3 /\ s3Entries = procs[p].pre.s3Entries

PipelineStep(p) == procs[p].op = "pipeline" /\ procs'[p] # procs[p] /\ procs'[p].err # "io"

\* C30: cloudSyncPipeline overwrites the remote index object with the local
\* index it has loaded before it reads the remote index; with no other writer
\* the remote index handed to the merge equals the local index.
C30_HeartbeatOrdering ==
  [][\A p \in Procs :
       /\ (PipelineStep(p) /\ procs[p].pc = "heartbeat") =>
            (s3MasterIndex' = [exists |-> TRUE, index |-> procs[p].local] /\ procs'[p].pc = "loadS3")
       /\ (PipelineStep(p) /\ procs[p].pc = "loadS3" /\ NoOtherWriter(p)) =>
            (procs'[p].remote = procs'[p].local /\ procs'[p].local = procs[p].pre.fs)]_vars

\* a sync pass that found the remote index different from the local one has
\* merged the local index with its own copy
C30_Witness ==
  \E p \in Procs :
    /\ procs[p].op = "pipeline" /\ procs[p].status = "ok" /\ NoOtherWriter(p)
    /\ procs[p].pre.s3 # procs[p].pre.fs
    /\ procs[p].pre.s3 # EmptyIndex /\ procs[p].pre.fs # EmptyIndex
    /\ procs[p].remote = procs[p].pre.fs

\* ----- one merge on its own -----------------------------------------------------
\* syncMasterIndex is called once on the persisted indexes; the calls the
\* renderer sends meanwhile stay unhandled. An awaited store operation
\* settles: it resolves, or it rejects.
NextPass == \E p \in Procs : mergeCall(p) \/ MergeSteps(p)

SpecPass == InitMerge /\ [][NextPass]_vars /\ WF_vars(\E p \in Procs : TransferSteps(p))

\* the transfers that change the content of a store
ContentTransfers == {"idbcreate", "idbupdate", "idbdelete", "s3put", "s3delete"}

\* the merge works on one id at a time: the transfers of an id are made in
\* a row, at most one of them changes content, and none is for an id still
\* to come
OneAtATime(pr) ==
  /\ \A i, j \in 1..Len(pr.xfers) :
       (i < j /\ pr.xfers[i][1] \in ContentTransfers /\ pr.xfers[j][1] \in ContentTransfers) => pr.xfers[i][2] # pr.xfers[j][2]
  /\ \A i, j, k \in 1..Len(pr.xfers) :
       (i < j /\ j < k /\ pr.xfers[i][2] = pr.xfers[k][2]) => pr.xfers[j][2] = pr.xfers[i][2]
  /\ \A i \in 1..Len(pr.xfers) : pr.order # <<>> => \A n \in 2..Len(pr.order) : pr.order[n] # pr.xfers[i][2]
  /\ \A i \in 1..Len(pr.xfers) : pr.xfers[i][1] \in ContentTransfers => (i = Len(pr.xfers) \/ pr.xfers[i + 1][2] # pr.xfers[i][2])

\* the merge has returned with a record for every id of either index
EveryIdOnce(pr) == (pr.status = "ok") => (pr.order = <<>> /\ DOMAIN pr.synced = (DOMAIN pr.local) \cup (DOMAIN pr.remote))

\* C31: one merge takes the ids of keys(local) and keys(remote) one at a time,
\* each once, makes at most one content-changing transfer per id, starts no
\* transfer of the next id before the current one has completed, and ends:
\* it returns after the last id unless a transfer fails.
C31_SequentialPass ==
  /\ [](\A p \in Procs : procs[p].op = "merge" => (OneAtATime(procs[p]) /\ EveryIdOnce(procs[p])))
  /\ \A p \in Procs : (procs[p].op = "merge" /\ procs[p].status = "running") ~> (procs[p].op = "merge" /\ procs[p].status \in {"ok", "failed"})

\* a merge has returned after a transfer for each of two ids
C31_Witness ==
  \E p \in Procs :
    /\ procs[p].op = "merge" /\ procs[p].status = "ok"
    /\ Touched(procs[p], "a") /\ Touched(procs[p], "b")
    /\ Len(procs[p].xfers) >= 3
    /\ faults = 0

\* local[k] is authoritative: only local has k, or local is strictly newer
LocalAuthoritative(pr, k) == k \in DOMAIN pr.local /\ (k \notin DOMAIN pr.remote \/ pr.local[k].lastModified > pr.remote[k].lastModified)

\* remote[k] is authoritative: only remote has k, or remote is strictly newer
RemoteAuthoritative(pr, k) == k \in DOMAIN pr.remote /\ (k \notin DOMAIN pr.local \/ pr.remote[k].lastModified > pr.local[k].lastModified)

\* C32: no step of a merge changes the local entry of an id whose local
\* record is authoritative, nor the remote entry object of an id whose remote
\* record is authoritative, and no step of a merge writes the local index
\* file or the remote index object.
C32_MergeFrame ==
  [][\A p \in Procs : (procs'[p].op = "merge" /\ procs'[p] # procs[p]) =>
       /\ UNCHANGED <<fsMasterIndex, s3MasterIndex>>
       /\ \A k \in Ids : LocalAuthoritative(procs'[p], k) => idb'[k] = idb[k]
       /\ \A k \in Ids : RemoteAuthoritative(procs'[p], k) => s3Entries'[k] = s3Entries[k]]_vars

\* a merge has pulled one id and pushed the other, each to the side that
\* was behind only
C32_Witness ==
  \E p \in Procs :
    /\ procs[p].op = "merge" /\ procs[p].status = "ok"
    /\ RemoteAuthoritative(procs[p], "a") /\ Did(procs[p], "idbupdate", "a")
    /\ LocalAuthoritative(procs[p], "b") /\ Did(procs[p], "s3put", "b")
    /\ s3Entries["a"] = procs[p].pre.s3Entries["a"] /\ idb["a"] # procs[p].pre.idb["a"]
    /\ idb["b"] = procs[p].pre.idb["b"] /\ s3Entries["b"] # procs[p].pre.s3Entries["b"]
    /\ fsMasterIndex.index = procs[p].pre.fs /\ s3MasterIndex.index = procs[p].pre.s3

\* the steps of a merge that apply a remote record to the renderer's store
AppliesRemote == {"createLocal", "updateLocal", "deleteLocal"}

\* C33: a step of a merge that creates, updates or deletes a local entry
\* because the remote record is authoritative sends no putEntryCloudSync and
\* no deleteEntryCloudSync, and no handler of such a call runs while the
\* merge is still running.
C33_NoReentrantSync ==
  /\ [][\A p \in Procs : (procs[p].op = "merge" /\ procs[p].pc \in AppliesRemote /\ procs'[p] # procs[p]) =>
          (issued' = issued /\ ipc' = ipc)]_vars
  /\ [](\A p, q \in Procs : (procs[p].op = "merge" /\ procs[p].status = "running") => procs[q].op \notin {"put", "delete"})

\* the remote index had a strictly newer record for the entry of call p
\* when the call began
RemoteWasNewer(pr) == pr.id \in DOMAIN pr.pre.s3 /\ pr.pre.s3[pr.id].lastModified > pr.entry.lastModified

\* C34: a putEntryCloudSync(e) that began while the remote index had a
\* strictly newer record for e.id leaves the remote entry object of e.id as
\* it was: it is not replaced by e.
C34_NoStaleOverwrite ==
  \A p \in Procs :
    (procs[p].op = "put" /\ procs[p].status = "ok" /\ RemoteWasNewer(procs[p])) =>
      s3Entries[procs[p].id] = procs[p].pre.s3Entries[procs[p].id]

\* ---- edits made before the S3 client is initialized ----

\* the app has a saved config and its client is not yet initialized, or is
\* already; the stores are those of InitOps
InitOffline ==
  /\ fsMasterIndex \in [exists : {TRUE}, index : Indexes({"a"}, {})]
  /\ s3MasterIndex \in [exists : {TRUE}, index : Indexes({"a"}, {})]
  /\ idb = [id \in Ids |-> SettledEntry(id, Rec(fsMasterIndex.index, id), "L")]
  /\ s3Entries = [id \in Ids |-> SettledEntry(id, Rec(s3MasterIndex.index, id), "R")]
  /\ now = 1
  /\ state \in {[AWSClient |-> null, AWSConfig |-> null], [AWSClient |-> "c1", AWSConfig |-> "c1"]}
  /\ configFile = "c1"
  /\ S3ClientInitializing = FALSE
  /\ procs = [p \in Procs |-> IdleProc]
  /\ ipc = <<>>
  /\ issued = 0
  /\ faults = 0
  /\ parsed = NoJSON
  /\ verified = NotLoaded

\* the user edits and the client is initialized in either order, one call
\* after the other
NextOffline ==
  \/ Quiet /\ (EditorSteps \/ \E p \in Procs : initS3Client(p))
  \/ \E p \in Procs : setAWSClient(p) \/ PipelineSteps(p) \/ TransferSteps(p) \/ HandlerSteps(p)

SpecOffline == InitOffline /\ [][NextOffline]_vars

\* the call of record pr was made for an edit while no client was set
OfflineEdit(pr) == pr.op \in {"put", "delete"} /\ pr.pre.state.AWSClient = null /\ pr.status \in {"ok", "failed"}

\* C35: once a cloudSyncPipeline run that began after an edit made without a
\* client has returned successfully, the edited id has a record in the local
\* index, the same record in the remote index, and the remote entry object
\* is the local entry (absent for a deletion).
C35_OfflineEditsSynced ==
  \A p, q \in Procs :
    (OfflineEdit(procs[p]) /\ q > p /\ procs[q].op = "pipeline" /\ procs[q].status = "ok") =>
      LET id == procs[p].id
      IN /\ id \in DOMAIN fsMasterIndex.index
         /\ id \in DOMAIN s3MasterIndex.index
         /\ s3MasterIndex.index[id] = fsMasterIndex.index[id]
         /\ fsMasterIndex.index[id].deleted = (procs[p].op = "delete")
         /\ s3Entries[id] = IF procs[p].op = "delete" THEN NoEntry ELSE JSONstringify(idb[id])

\* id k has a record in exactly one of the two indexes of the merge of
\* record pr, and that record is a tombstone
OneSidedTombstone(pr, k) ==
  \/ k \in DOMAIN pr.local /\ k \notin DOMAIN pr.remote /\ pr.local[k].deleted
  \/ k \in DOMAIN pr.remote /\ k \notin DOMAIN pr.local /\ pr.remote[k].deleted

\* C36: for an id with a tombstone in only one of the two indexes a merge
\* fetches and creates nothing, does not fail at that id, and returns the
\* tombstone as the merged record.
C36_OneSidedTombstone ==
  \A p \in Procs : \A k \in Ids :
    (procs[p].op = "merge" /\ OneSidedTombstone(procs[p], k)) =>
      /\ ~Touched(procs[p], k)
      /\ procs[p].status = "failed" => (procs[p].order = <<>> \/ Head(procs[p].order) # k)
      /\ procs[p].status = "ok" => (k \in DOMAIN procs[p].synced /\ procs[p].synced[k] = Rec(IF k \in DOMAIN procs[p].local THEN procs[p].local ELSE procs[p].remote, k))

\* ---- two pipeline runs in a row ----

\* the user presses Sync again after a run that returned successfully, with
\* nothing running or queued in between
cloudSyncPipelineAgain(p) ==
  /\ Quiet
  /\ procs[p].op = "pipeline" /\ procs[p].status = "ok" /\ procs[p].run = 0
  /\ \A q \in Procs : q # p => procs[q] = IdleProc
  /\ procs' = [procs EXCEPT ![p] = cloudSyncPipelineCall([IdleProc EXCEPT !.op = "pipeline", !.status = "running", !.pre = Snapshot, !.run = 2, !.first = procs[p].synced], state)]
  /\ UNCHANGED <<fsMasterIndex, s3MasterIndex, idb, s3Entries, now, state, ipc, issued, faults, setup, decode>>

NextTwice == NextOps \/ \E p \in Procs : cloudSyncPipelineAgain(p)

SpecTwice == InitOps /\ [][NextTwice]_vars

\* C37: a cloudSyncPipeline run that follows a successful one with no
\* mutation in between performs no entry transfer and, at every step and at
\* its end, both indexes and both entry stores are what they were when it
\* began; its merged index is the one of the first run.
C37_Quiescence ==
  \A p \in Procs :
    (procs[p].op = "pipeline" /\ procs[p].run = 2) =>
      /\ procs[p].xfers = <<>>
      /\ fsMasterIndex.index = procs[p].pre.fs /\ s3MasterIndex.index = procs[p].pre.s3
      /\ idb = procs[p].pre.idb /\ s3Entries = procs[p].pre.s3Entries
      /\ procs[p].status = "ok" => procs[p].synced = procs[p].first

\* a second run has returned over an index that records both a live entry
\* and a tombstone
C37_Witness ==
  \E p \in Procs :
    /\ procs[p].op = "pipeline" /\ procs[p].run = 2 /\ procs[p].status = "ok"
    /\ \E k \in DOMAIN procs[p].synced : ~procs[p].synced[k].deleted /\ idb[k] # NoEntry
    /\ \E k \in DOMAIN procs[p].synced : procs[p].synced[k].deleted

\* ---- edits whose calls overlap ----

\* the number of edits the user makes in a row
MaxEdits == 2

\* The editor saves, creates or deletes an entry while the calls of earlier
\* edits are still queued or running: the renderer's idb functions call
\* window.cloudSync.* without awaiting.
editUnawaited ==
  /\ issued < MaxEdits
  /\ \E id \in Ids, t \in now..MaxClock, entryDate \in formatCurrentDate, fn \in {"create", "update", "delete"} :
       LET res == IF fn = "create" THEN window_idbCreateEntry(ObjArg([id |-> id, date |-> entryDate, content |-> "E", timestamp |-> "number", lastModified |-> 0]), t)
                  ELSE IF fn = "update" THEN window_idbUpdateEntry(id, [id |-> "none", date |-> <<>>, content |-> "E", timestamp |-> "none", lastModified |-> 0], t)
                  ELSE window_idbDeleteEntry(id)
       IN /\ (fn = "create") = (idb[id] = NoEntry)
          /\ fn = "delete" => t = now
          /\ fn # "create" => entryDate = <<"Jun 14, 2025", "12:35">>
          /\ idb' = res.idb
          /\ ipc' = ipc \o res.sent
          /\ issued' = issued + Len(res.sent)
          /\ now' = t
  /\ UNCHANGED <<fsMasterIndex, s3MasterIndex, s3Entries, state, procs, faults, setup, decode>>

NextEdits == editUnawaited \/ \E p \in Procs : TransferSteps(p) \/ HandlerSteps(p)

SpecEdits == InitOps /\ [][NextEdits]_vars

\* C38: once two putEntryCloudSync calls for one id with different
\* lastModified that ran at the same time have both returned successfully,
\* the remote entry object is the entry with the greater lastModified and
\* both persisted indexes record that lastModified for the id.
C38_OverlappingEdits ==
  \A p, q \in Procs :
    (/\ procs[p].op = "put" /\ procs[q].op = "put"
     /\ procs[p].status = "ok" /\ procs[q].status = "ok"
     /\ procs[p].id = procs[q].id
     /\ procs[p].entry.lastModified < procs[q].entry.lastModified
     /\ procs[q].pre.running = 1) =>
      /\ s3Entries[procs[q].id] = JSONstringify(procs[q].entry)
      /\ Rec(fsMasterIndex.index, procs[q].id) = [lastModified |-> procs[q].entry.lastModified, deleted |-> FALSE]
      /\ Rec(s3MasterIndex.index, procs[q].id) = [lastModified |-> procs[q].entry.lastModified, deleted |-> FALSE]

\* C39: whenever no initS3Client, createConfig or updateConfig call is in
\* flight, a non-null state.AWSClient comes with a non-null state.AWSConfig
\* and an existing config file.
C39_ClientConfigPaired ==
  (\A p \in Procs : procs[p].status # "running") =>
    (state.AWSClient # null => (state.AWSConfig # null /\ configFile # null))

\* an initS3Client call that returned at one of its two guards
ReturnedEarly(pr) == pr.caller = "initS3Client" /\ pr.op = "init" /\ pr.status = "ok"

\* C40: the initializing flag is set only while an initS3Client call is
\* awaiting its probe, so it is false whenever such a call has ended, by
\* success or by any failure; and an initS3Client call made while no probe is
\* in flight and no client exists is not skipped.
C40_GuardReleased ==
  /\ [](S3ClientInitializing => \E p \in Procs : Probing(procs[p]))
  /\ [][\A p \in Procs : (InitCalled(p) /\ state.AWSClient = null /\ ~\E q \in Procs : Probing(procs[q])) =>
          ~ReturnedEarly(procs'[p])]_vars

\* an initS3Client call has failed at its probe and the flag is released
C40_Witness ==
  \E p \in Procs :
    /\ procs[p].caller = "initS3Client" /\ procs[p].status = "failed"
    /\ procs[p].err = "getAWSClient: testAWSClient failed"
    /\ state.AWSClient = null /\ configFile = "c1"
    /\ ~S3ClientInitializing

====
